---- MODULE Spec2Model ----
(***************************************************************************)
(* SRE Sentinel: the incident pipeline (SRESentinel._handle_incident) and  *)
(* the MCP gateway client (MCPOrchestrator) it drives.                     *)
(*                                                                         *)
(* One pipeline run per monitored container at a time: the log pump of a   *)
(* container awaits _handle_incident inline.  Pipelines of different       *)
(* containers are asyncio tasks of one event loop: they interleave at the  *)
(* await points that really suspend (bus publish, gateway HTTP exchange,   *)
(* asyncio.sleep) and share the one MCPOrchestrator and the incident list. *)
(* An action is the synchronous code run between two such points.          *)
(***************************************************************************)
EXTENDS Integers, Sequences, FiniteSets, TLC

\* ---------------------------------------------------------------- bounds
MaxFixes == 1          \* longest analysis.suggested_fixes the analyzer returns
MaxIncidents == 2      \* incidents opened in one behaviour

HealthCallSeconds == 13 \* loop time one health_check exchange takes
log_lines_per_check == 2          \* SRESentinel.log_lines_per_check (LOG_LINES_PER_CHECK)
log_check_interval_seconds == 2   \* SRESentinel.log_check_interval_seconds (LOG_CHECK_INTERVAL)
MaxLines == 3          \* log lines the monitored containers write in one behaviour
MaxTime == 4           \* seconds of one behaviour
MaxFailures == 3       \* failures of the container runtime in one behaviour
MaxPending == 2        \* container events waiting in the listener's queue

\* ------------------------------------------------------ program constants
_HEALTH_CHECK_INTERVAL == 2
_MAX_HEALTH_WAIT_SECONDS == 30
_MAX_HISTORY_SIZE == 1000
stop_after_attempt == 3

\* Optional values: None is the empty tuple, Some(v) the one-element tuple.
\* A text is the tuple of the pieces its literal or f-string is made of.
None == <<>>
Some(v) == <<v>>
The(opt) == opt[1]

\* websocket clients calling RedisEventBus.subscribe; the PubSub object a call
\* creates is named after the client
Clients == {"ws1", "ws2"}
Subscriptions == {"s1", "s2"}          \* handles returned by SentinelEventBus.subscribe
Containers == {"api", "worker"}        \* monitored containers, one log pump each
Targets == {"postgres"}                \* FixAction.target values the analyzer names
Priorities == {1, 3}                   \* FixAction.priority values the analyzer names
ToolNames == {"restart_container", "health_check"}
SessionIds == {"sid-1", "sid-2"}                \* Mcp-Session-Id values the gateway hands out
AnalyzerErrors == {"Failed to contact Llama API"}
RuntimeStatuses == {"running", "restarting"}

\* IncidentStatus
ANALYZING == "analyzing"
RESOLVED == "resolved"
UNRESOLVED == "unresolved"

\* FixAction: (action, target, priority); details is the opaque argument string
FixAction == [action : {"restart_container"}, target : Targets, priority : Priorities]

RECURSIVE SeqsUpTo(_, _)
SeqsUpTo(S, n) ==
    IF n = 0 THEN {<<>>}
    ELSE LET shorter == SeqsUpTo(S, n - 1)
         IN shorter \cup {Append(s, x) : s \in {t \in shorter : Len(t) = n - 1}, x \in S}

\* RootCauseAnalysis.suggested_fixes: a tuple of fix actions in model order
SuggestedFixes == SeqsUpTo(FixAction, MaxFixes)

\* FixExecutionResult has exactly these fields (no priority, no action)
FixExecutionResult(success, message, error, details) ==
    [success |-> success, message |-> message, error |-> error,
     status |-> None, details |-> details]

\* Incident as built at the open stage
Incident(service) ==
    [service |-> service, status |-> ANALYZING, analysis |-> None, fixes |-> <<>>,
     resolved_at |-> None, explanation |-> None, resolution_notes |-> None]

\* IncidentEvent / IncidentUpdateEvent: the event serialises the record at
\* the moment of the publish call (_serialise_payload -> model_dump)
IncidentEvent(rec) == [type |-> "incident", incident |-> rec]
IncidentUpdateEvent(rec) == [type |-> "incident_update", incident |-> rec]

Last(s) == s[Len(s)]

VARIABLES
    auto_heal_enabled,  \* MCPSettings.auto_heal_enabled
    session_id,         \* MCPOrchestrator._session_id
    connected,          \* MCPOrchestrator._connected
    available_tools,    \* names of MCPOrchestrator._available_tools
    incidents,          \* SRESentinel.incidents: list of references to records
    records,            \* the Incident objects, by reference (allocation order)
    published,          \* per record: events handed to event_bus.publish, in order
    pc,                 \* per container: where its pipeline run is suspended
    cur,                \* per container: reference of incident_record
    init_from,          \* per container: who called initialize()
    gateway_healthy,    \* per container: local gateway_healthy
    fix_results,        \* per container: local fix_results
    exec_calls,         \* per container: fix actions passed to execute_fix this run
    health_calls,       \* per container: verify_health calls this run
    elapsed,            \* per container: loop time since start_time in verify_health
    is_healthy,         \* per container: local is_healthy
    is_actually_running,\* per container: local is_actually_running
    analysis_exc,       \* per container: exception caught around analyze_root_cause
    exc,                \* per container: exception _handle_incident let propagate
    http,               \* per container: the gateway request awaiting its response
    environment_vars,   \* _build_context: the environment map handed to the analyzer
    prompt,             \* _build_context: the rendered "Environment Variables" section
    subscribers,        \* SentinelEventBus._subscribers
    queue,              \* per subscription: _Subscriber.queue, oldest first
    handle,             \* per subscription: not created, open, or closed (_closed)
    iter,               \* per subscription: where its iterator is
    yielded,            \* per subscription: ids of the events its iterator has yielded
    sent,               \* number of publish calls made on the bus
    listeners_at,       \* per publish call: the subscribers registered when it started
    dropped,            \* per subscription: events removed from its queue by overflow
    bus_pubsub,         \* RedisEventBus._pubsub: the PubSub made by the latest subscribe()
    channel,            \* Redis server: the PubSub connections subscribed to the channel
    inbox,              \* per PubSub: messages delivered to it and not yet read
    rsub,               \* per client: the PubSub its RedisSubscription wraps
    rpc,                \* per client: idle, subscribing, attached or closed
    received,           \* per client: ids of the events its subscription has yielded
    rsent,              \* number of publish calls made on the Redis bus
    returned_at,        \* per publish call: clients whose subscribe() had returned
    started_at,         \* per publish call: clients whose subscribe() had started
    history,            \* Redis server: the list under _EVENT_HISTORY_KEY, head first
    hpc,                \* per publishing task: where its RedisEventBus.publish is
    hmsg,               \* per publishing task: id of the message it is publishing
    hsent,              \* number of RedisEventBus.publish calls started
    clock,                \* time.monotonic(), in seconds
    arrived,            \* log lines the reader threads have produced so far
    log_queue,          \* per container: lines put on the pump's queue, not yet read
    lines_since_check,  \* per container: local lines_since_check
    last_check_time,    \* per container: local last_check_time
    ppc,                \* per container: where its _stream_container_logs task is
    attempt,            \* per container: attempt number of the running detect_anomaly
    anomaly,            \* per container: the last result detect_anomaly returned
    runs,               \* per container: _handle_incident calls of its pumps not yet over
    loop_thread,        \* the container whose classifier call occupies the loop thread
    last_ran,           \* the other scheduler task that ran a callback most recently
    wpc,                \* per client: where its websocket_endpoint call is
    close_code,         \* per client: the code the handler closed the connection with
    ws_exc,             \* per client: the exception that ended the handler's work
    snapshot_at,        \* per client: events published when the snapshots were taken
    ws_inbox,           \* per client: events its subscription holds, oldest first
    frames,             \* per client: the frames sent to it, in order
    skipped,            \* per client: events whose send timed out
    wsent,              \* number of events published while clients connect
    lpc,                \* where _listen_docker_events is
    reader,             \* the reader thread started last: none, alive or dead
    event_queue,        \* local event_queue of _listen_docker_events, oldest first
    delay,              \* seconds of the sleep the listener is in or was in last
    listener_exc,       \* the exception the listener caught last
    failures,           \* failures of the container runtime so far
    runtime,            \* container runtime, per container id: its state
    written,            \* container runtime, per container id: lines in its log
    changes,            \* container runtime: state changes made so far
    docker_events,      \* container events not yet handled, oldest first
    _monitoring_tasks,  \* SRESentinel._monitoring_tasks: per id a task, 0 if none
    tasks,              \* the _monitor_container tasks created, in creation order
    container_states,   \* SRESentinel.container_states: per id the status stored
    log_buffers,        \* per container: the lines ingested (buffered and published)
    samples             \* per container: the container_update events published

mcp == <<auto_heal_enabled, session_id, connected, available_tools>>
log == <<incidents, records, published>>
locals == <<cur, init_from, gateway_healthy, fix_results, exec_calls, health_calls,
            elapsed, is_healthy, is_actually_running, analysis_exc, exc>>
pipeline == <<mcp, log, locals, pc, http>>
redaction == <<environment_vars, prompt>>

\* the state of the components the incident pipeline does not touch
bus == <<subscribers, queue, handle, iter, yielded, sent, listeners_at, dropped>>
redis == <<bus_pubsub, channel, inbox, rsub, rpc, received, rsent, returned_at, started_at>>

\* the components around the pipeline, one group of variables each
stored == <<history, hpc, hmsg, hsent>>
pump == <<clock, arrived, log_queue, lines_since_check, last_check_time, ppc, attempt,
          anomaly, runs, loop_thread, last_ran>>
ws == <<wpc, close_code, ws_exc, snapshot_at, ws_inbox, frames, skipped, wsent>>
listener == <<lpc, reader, event_queue, delay, listener_exc, failures>>
lifecycle == <<runtime, written, changes, docker_events, _monitoring_tasks, tasks,
               container_states, log_buffers, samples>>
periphery == <<stored, pump, ws, listener, lifecycle>>

outside == <<redaction, bus, redis, periphery>>

vars == <<pipeline, outside>>

\* MCPOrchestrator._session is assigned None in __init__ and in close() only
mcp_session == None

PipelineInit ==
    /\ auto_heal_enabled \in BOOLEAN
    /\ session_id = None
    /\ connected = FALSE
    /\ available_tools = {}
    /\ incidents = <<>>
    /\ records = <<>>
    /\ published = <<>>
    /\ pc = [c \in Containers |-> "idle"]
    /\ cur = [c \in Containers |-> 0]
    /\ init_from = [c \in Containers |-> "nobody"]
    /\ gateway_healthy = [c \in Containers |-> None]
    /\ fix_results = [c \in Containers |-> <<>>]
    /\ exec_calls = [c \in Containers |-> <<>>]
    /\ health_calls = [c \in Containers |-> 0]
    /\ elapsed = [c \in Containers |-> 0]
    /\ is_healthy = [c \in Containers |-> None]
    /\ is_actually_running = [c \in Containers |-> None]
    /\ analysis_exc = [c \in Containers |-> None]
    /\ exc = [c \in Containers |-> "none"]
    /\ http = [c \in Containers |-> None]

\* no prompt is being built
RedactionIdle ==
    /\ environment_vars = <<>>
    /\ prompt = None

\* SentinelEventBus.__init__: no subscriber, nothing published
BusInit ==
    /\ subscribers = {}
    /\ queue = [s \in Subscriptions |-> <<>>]
    /\ handle = [s \in Subscriptions |-> "none"]
    /\ iter = [s \in Subscriptions |-> "none"]
    /\ yielded = [s \in Subscriptions |-> <<>>]
    /\ sent = 0
    /\ listeners_at = <<>>
    /\ dropped = [s \in Subscriptions |-> {}]

\* RedisEventBus.__init__ after connect(): no PubSub, no subscription
RedisInit ==
    /\ bus_pubsub = "none"
    /\ channel = {}
    /\ inbox = [k \in Clients |-> <<>>]
    /\ rsub = [k \in Clients |-> "none"]
    /\ rpc = [k \in Clients |-> "idle"]
    /\ received = [k \in Clients |-> <<>>]
    /\ rsent = 0
    /\ returned_at = <<>>
    /\ started_at = <<>>

\* the components around the pipeline before any of them has acted: the
\* history list holds one of the given numbers of entries and no
\* RedisEventBus.publish is running; every container has a pump at
\* _stream_container_logs lines 684-706, at time 0; no client has connected
\* to /ws; monitor_loop is about to call _listen_docker_events, having
\* found no labelled container: the containers exist and were never started
PeripheryInit(lengths) ==
    /\ \E n \in lengths : history = [i \in 1..n |-> [type |-> "event", id |-> 1 - i]]
    /\ hpc = [c \in Containers |-> "idle"]
    /\ hmsg = [c \in Containers |-> 0]
    /\ hsent = 0
    /\ clock = 0
    /\ arrived = 0
    /\ log_queue = [c \in Containers |-> 0]
    /\ lines_since_check = [c \in Containers |-> 0]
    /\ last_check_time = [c \in Containers |-> 0]
    /\ ppc = [c \in Containers |-> "get"]
    /\ attempt = [c \in Containers |-> 0]
    /\ anomaly = [c \in Containers |-> None]
    /\ runs = [c \in Containers |-> 0]
    /\ loop_thread = "none"
    /\ last_ran = "none"
    /\ wpc = [k \in Clients |-> "idle"]
    /\ close_code = [k \in Clients |-> None]
    /\ ws_exc = [k \in Clients |-> "none"]
    /\ snapshot_at = [k \in Clients |-> 0]
    /\ ws_inbox = [k \in Clients |-> <<>>]
    /\ frames = [k \in Clients |-> <<>>]
    /\ skipped = [k \in Clients |-> {}]
    /\ wsent = 0
    /\ lpc = "connect"
    /\ reader = "none"
    /\ event_queue = <<>>
    /\ delay = 0
    /\ listener_exc = "none"
    /\ failures = 0
    /\ runtime = [c \in Containers |-> "created"]
    /\ written = [c \in Containers |-> 0]
    /\ changes = 0
    /\ docker_events = <<>>
    /\ _monitoring_tasks = [c \in Containers |-> 0]
    /\ tasks = <<>>
    /\ container_states = [c \in Containers |-> None]
    /\ log_buffers = [c \in Containers |-> <<>>]
    /\ samples = [c \in Containers |-> <<>>]

Init ==
    /\ PipelineInit
    /\ RedactionIdle
    /\ BusInit
    /\ RedisInit
    /\ PeripheryInit({0})

\* ------------------------------------------------------------- environment
\* what the gateway answers to POST initialize: 200 with or without the
\* Mcp-Session-Id header, or a failure (non-200, connection error, timeout)
InitializeResponses ==
    [status : {200}, session : {Some(s) : s \in SessionIds} \cup {None}]
        \cup {[status |-> 500, session |-> None]}

\* what the gateway answers to tools/list: a tool list (possibly empty), or a
\* failure (non-200, no data line, no result.tools)
ToolsListResponses ==
    [ok : {TRUE}, tools : {{}, ToolNames}] \cup {[ok |-> FALSE, tools |-> {}]}

\* what the gateway answers to tools/call: a tool result with success true or
\* false, a tool result {status: "running"} without a success field, a 200
\* without a usable result, a non-200, or no answer (exception)
ToolCallResponses ==
    {"success_true", "success_false", "status_running", "invalid", "http_error", "exception"}

\* the answers drawn for the tools/call of a fix
FixCallResponses == ToolCallResponses

\* what analyze_root_cause does: returns an analysis or raises after its retries
AnalyzerOutcomes == [fixes : SuggestedFixes] \cup [exc : AnalyzerErrors]

\* ------------------------------------------------------------ pure helpers
Rec(c) == records[cur[c]]

SetRec(c, rec) == [records EXCEPT ![cur[c]] = rec]

Publish(c, event) == [published EXCEPT ![cur[c]] = Append(@, event)]

HasAttr(obj, name) == name \in DOMAIN obj

\* mutant of auto_heal_blocks: the auto-heal flag is not consulted
auto_heal_ignored(enabled) == FALSE

\* execute_fix, auto-heal gate: "if not self.settings.auto_heal_enabled"
auto_heal_blocks(enabled) == ~enabled

AutoHealDisabled == FixExecutionResult(FALSE, <<"Auto-heal disabled">>, None, None)

ToolNotFound(tool_name) ==
    FixExecutionResult(FALSE, <<"Tool ", tool_name, " not found in MCP Gateway">>,
                       <<"Tool ", tool_name, " not found in MCP Gateway">>, None)

NotConnected ==
    FixExecutionResult(FALSE, <<"MCP Gateway not connected">>,
                       <<"MCP Gateway not connected">>, None)

\* mutant of call_tool_result: a 200 without a usable result counts as success
call_tool_result_invalid_ok(resp) ==
    CASE resp = "success_true"  -> FixExecutionResult(TRUE, <<"message">>, None, <<"tool_result">>)
      [] resp = "success_false" -> FixExecutionResult(FALSE, <<"message">>, <<"Unknown error">>, None)
      [] resp = "status_running" -> FixExecutionResult(FALSE, <<"">>, <<"Unknown error">>, None)
      [] resp = "invalid"       -> FixExecutionResult(TRUE, <<"Invalid response from MCP Gateway">>, None, None)
      [] resp = "http_error"    -> FixExecutionResult(FALSE, <<"HTTP ", "500">>, <<"error_text">>, None)
      [] resp = "exception"     -> FixExecutionResult(FALSE, <<"exc">>, <<"exc">>, None)

\* _call_tool: the FixExecutionResult built from the gateway's answer
call_tool_result(resp) ==
    CASE resp = "success_true"  -> FixExecutionResult(TRUE, <<"message">>, None, <<"tool_result">>)
      [] resp = "success_false" -> FixExecutionResult(FALSE, <<"message">>, <<"Unknown error">>, None)
      [] resp = "status_running" -> FixExecutionResult(FALSE, <<"">>, <<"Unknown error">>, None)
      [] resp = "invalid"       -> FixExecutionResult(FALSE, <<"Invalid response from MCP Gateway">>, None, None)
      [] resp = "http_error"    -> FixExecutionResult(FALSE, <<"HTTP ", "500">>, <<"error_text">>, None)
      [] resp = "exception"     -> FixExecutionResult(FALSE, <<"exc">>, <<"exc">>, None)

\* mutant of analysis_failed_record: the status assignment is missing
analysis_failed_record_nostatus(rec, error) ==
    [rec EXCEPT !.analysis = None,
                !.resolution_notes = <<"Root cause analysis failed: ", error>>]

\* analysis failure branch: the record after lines 852-854
analysis_failed_record(rec, error) ==
    [rec EXCEPT !.analysis = None, !.status = UNRESOLVED,
                !.resolution_notes = <<"Root cause analysis failed: ", error>>]

\* mutant of gateway_unhealthy_record: the notes assignment is missing
gateway_unhealthy_record_nonotes(rec) == [rec EXCEPT !.status = UNRESOLVED]

\* gateway unhealthy branch: the record after lines 894-895
gateway_unhealthy_record(rec) ==
    [rec EXCEPT !.status = UNRESOLVED,
                !.resolution_notes = <<"MCP Gateway health check failed">>]

\* mutant of preflight_next: the "return" of the unhealthy branch is missing
preflight_next_noreturn(healthy) == "remediate"

\* where the pipeline goes after verify_gateway_health: "return" when unhealthy
preflight_next(healthy) == IF healthy THEN "remediate" ELSE "returned"

\* verify stage, lines 926-932: the scan reads fix.priority of each element of
\* fix_results.  Reading an attribute the element does not have raises
\* AttributeError: the scan then yields None, otherwise Some(flag).
RECURSIVE critical_scan(_, _)
critical_scan(results, acc) ==
    IF results = <<>> THEN Some(acc)
    ELSE IF ~HasAttr(Head(results), "priority") THEN None
    ELSE critical_scan(Tail(results),
                       IF Head(results).priority <= 2 /\ ~Head(results).success THEN FALSE ELSE acc)

all_critical_fixes_succeeded(results) == critical_scan(results, TRUE)

\* verify stage, lines 938-959: the record after the verdict
verdict_record(rec, healthy, critical_ok, running) ==
    IF healthy /\ critical_ok /\ running
    THEN [rec EXCEPT !.status = RESOLVED, !.resolved_at = <<"utcnow">>]
    ELSE [rec EXCEPT !.status = UNRESOLVED]

\* ------------------------------------------------------------ control flow
GoTo(c, label) == pc' = [pc EXCEPT ![c] = label]

Await(c, request) == http' = [http EXCEPT ![c] = request]

Request(method, session, tool) == Some([method |-> method, session |-> session, tool |-> tool])

\* an exception leaves _handle_incident
Raise(c, exception) ==
    /\ GoTo(c, "raised")
    /\ exc' = [exc EXCEPT ![c] = exception]

\* mutant of session_established: the Mcp-Session-Id header is not required
session_established_noheader(resp) == resp.status = 200

\* _initialize_session lines 134-141: a 200 whose Mcp-Session-Id header is set
session_established(resp) == resp.status = 200 /\ resp.session # None

\* initialize() -> _connect_to_gateway -> _initialize_session: POST initialize
\* is sent (no session header) and the caller suspends on the response
StartInitialize(c, caller) ==
    /\ GoTo(c, "initialize_session")
    /\ Await(c, Request("initialize", None, None))
    /\ init_from' = [init_from EXCEPT ![c] = caller]

\* pre-flight verdict: gateway_healthy is assigned; unhealthy marks the record
\* and returns without a publish
PreflightVerdict(c, healthy) ==
    /\ gateway_healthy' = [gateway_healthy EXCEPT ![c] = Some(healthy)]
    /\ records' = IF healthy THEN records ELSE SetRec(c, gateway_unhealthy_record(Rec(c)))
    /\ GoTo(c, preflight_next(healthy))

\* ------------------------------------------------- _handle_incident: open
\* lines 782-798: build the record, append it, publish the incident event
handle_incident_open(c) ==
    /\ pc[c] = "idle"
    /\ Len(records) < MaxIncidents
    /\ records' = Append(records, Incident(c))
    /\ incidents' = Append(incidents, Len(records) + 1)
    /\ published' = Append(published, <<IncidentEvent(Incident(c))>>)
    /\ cur' = [cur EXCEPT ![c] = Len(records) + 1]
    /\ GoTo(c, "get_tools")
    /\ UNCHANGED <<outside, mcp, init_from, gateway_healthy, fix_results, exec_calls, health_calls,
                   elapsed, is_healthy, is_actually_running, analysis_exc, exc, http>>

\* lines 800-838 and get_tools_for_ai: context gathering is synchronous; the
\* tool catalog triggers initialize() when no tool is cached
get_tools_for_ai(c) ==
    /\ pc[c] = "get_tools"
    /\ IF available_tools = {}
       THEN StartInitialize(c, "get_tools_for_ai")
       ELSE GoTo(c, "analyze") /\ UNCHANGED <<init_from, http>>
    /\ UNCHANGED <<outside, mcp, log, cur, gateway_healthy, fix_results, exec_calls, health_calls,
                   elapsed, is_healthy, is_actually_running, analysis_exc, exc>>

\* lines 840-864: diagnose.  Failure: mark, append the record again, publish an
\* incident event, return.  Success: attach the analysis, publish an update.
analyze_root_cause(c) ==
    /\ pc[c] = "analyze"
    /\ \E outcome \in AnalyzerOutcomes :
         IF HasAttr(outcome, "exc")
         THEN LET rec == analysis_failed_record(Rec(c), outcome.exc)
              IN /\ records' = SetRec(c, rec)
                 /\ incidents' = Append(incidents, cur[c])
                 /\ published' = Publish(c, IncidentEvent(rec))
                 /\ analysis_exc' = [analysis_exc EXCEPT ![c] = Some(outcome.exc)]
                 /\ GoTo(c, "returned")
         ELSE LET rec == [Rec(c) EXCEPT !.analysis = Some(outcome.fixes)]
              IN /\ records' = SetRec(c, rec)
                 /\ published' = Publish(c, IncidentUpdateEvent(rec))
                 /\ GoTo(c, "preflight")
                 /\ UNCHANGED <<incidents, analysis_exc>>
    /\ UNCHANGED <<outside, mcp, cur, init_from, gateway_healthy, fix_results, exec_calls,
                   health_calls, elapsed, is_healthy, is_actually_running, exc, http>>

\* lines 886-896: "if not self.mcp._session: await self.mcp.initialize()",
\* then verify_gateway_health (which initializes itself when not connected)
preflight(c) ==
    /\ pc[c] = "preflight"
    /\ IF mcp_session = None
       THEN /\ StartInitialize(c, "preflight")
            /\ UNCHANGED <<records, gateway_healthy>>
       ELSE IF ~connected
       THEN /\ StartInitialize(c, "verify_gateway_health")
            /\ UNCHANGED <<records, gateway_healthy>>
       ELSE /\ PreflightVerdict(c, available_tools # {} /\ session_id # None)
            /\ UNCHANGED <<init_from, http>>
    /\ UNCHANGED <<outside, mcp, incidents, published, cur, fix_results, exec_calls, health_calls,
                   elapsed, is_healthy, is_actually_running, analysis_exc, exc>>

\* ------------------------------------------------------ MCPOrchestrator
\* initialize() raised.  verify_gateway_health catches it and returns False;
\* get_tools_for_ai, the pre-flight call and execute_fix (line 234, outside
\* its try) let it propagate out of _handle_incident.
InitializeRaised(c) ==
    /\ Await(c, None)
    /\ IF init_from[c] = "verify_gateway_health"
       THEN PreflightVerdict(c, FALSE) /\ UNCHANGED exc
       ELSE Raise(c, "Exception") /\ UNCHANGED <<records, gateway_healthy>>

\* _call_tool up to its request: refuses without a connection or a session id,
\* otherwise POSTs tools/call with the current session id
CallToolSend(c, tool_name, waiting, refused) ==
    IF ~connected \/ session_id = None
    THEN GoTo(c, refused) /\ Await(c, None)
    ELSE GoTo(c, waiting) /\ Await(c, Request("tools/call", session_id, tool_name))

\* execute_fix lines 236-264 once initialize() has returned: unknown tool is
\* answered locally, otherwise _call_tool
ExecuteFixBody(c, tools) ==
    LET fix == The(Rec(c).analysis)[Len(fix_results[c]) + 1]
        tool_name == fix.action
    IN IF tool_name \notin tools
       THEN /\ fix_results' = [fix_results EXCEPT ![c] = Append(@, ToolNotFound(tool_name))]
            /\ GoTo(c, "remediate") /\ Await(c, None)
       ELSE /\ fix_results' = [fix_results EXCEPT ![c] =
                                 IF ~connected \/ session_id = None
                                 THEN Append(@, NotConnected) ELSE @]
            /\ CallToolSend(c, tool_name, "call_tool", "remediate")

\* _initialize_session: the answer to POST initialize.  200 with a session id
\* stores it, _connect_to_gateway sets _connected, and _discover_tools POSTs
\* tools/list with that id; anything else raises.
initialize_session_answer(c, resp) ==
    IF session_established(resp)
    THEN /\ session_id' = resp.session
         /\ connected' = TRUE
         /\ GoTo(c, "discover_tools")
         /\ Await(c, Request("tools/list", resp.session, None))
         /\ UNCHANGED <<records, gateway_healthy, exc>>
    ELSE /\ InitializeRaised(c)
         /\ UNCHANGED <<session_id, connected>>

initialize_session(c) ==
    /\ pc[c] = "initialize_session"
    /\ \E resp \in InitializeResponses : initialize_session_answer(c, resp)
    /\ UNCHANGED <<outside, auto_heal_enabled, available_tools, incidents, published, cur, init_from,
                   fix_results, exec_calls, health_calls, elapsed, is_healthy,
                   is_actually_running, analysis_exc>>

\* _discover_tools: the answer to tools/list.  A tool list replaces the cache
\* and initialize() returns to its caller, whose synchronous continuation runs
\* in the same step; anything else raises.
discover_tools(c) ==
    /\ pc[c] = "discover_tools"
    /\ \E resp \in ToolsListResponses :
         IF ~resp.ok
         THEN /\ InitializeRaised(c)
              /\ UNCHANGED <<available_tools, fix_results>>
         ELSE /\ available_tools' = resp.tools
              /\ UNCHANGED exc
              /\ CASE init_from[c] = "get_tools_for_ai" ->
                        /\ GoTo(c, "analyze") /\ Await(c, None)
                        /\ UNCHANGED <<records, gateway_healthy, fix_results>>
                   [] init_from[c] \in {"preflight", "verify_gateway_health"} ->
                        /\ PreflightVerdict(c, resp.tools # {} /\ session_id # None)
                        /\ Await(c, None)
                        /\ UNCHANGED fix_results
                   [] init_from[c] = "execute_fix" ->
                        /\ ExecuteFixBody(c, resp.tools)
                        /\ UNCHANGED <<records, gateway_healthy>>
    /\ UNCHANGED <<outside, auto_heal_enabled, session_id, connected, incidents, published, cur,
                   init_from, exec_calls, health_calls, elapsed, is_healthy,
                   is_actually_running, analysis_exc>>

\* execute_fix line 264: the result _call_tool builds from the answer resp is
\* returned to the remediate loop, which appends it
call_tool_answer(c, resp) ==
    fix_results' = [fix_results EXCEPT ![c] = Append(@, call_tool_result(resp))]

\* _call_tool: the answer to the tools/call of a fix becomes its result
call_tool(c) ==
    /\ pc[c] = "call_tool"
    /\ \E resp \in FixCallResponses : call_tool_answer(c, resp)
    /\ GoTo(c, "remediate") /\ Await(c, None)
    /\ UNCHANGED <<outside, mcp, log, cur, init_from, gateway_healthy, exec_calls, health_calls,
                   elapsed, is_healthy, is_actually_running, analysis_exc, exc>>

\* --------------------------------------------- _handle_incident: remediate
\* lines 898-917: one loop iteration (execute_fix up to its first await), or
\* the end of the loop: incident.fixes is assigned and an update published
remediate(c) ==
    /\ pc[c] = "remediate"
    /\ LET fixes == The(Rec(c).analysis)
           i == Len(fix_results[c]) + 1
       IN IF i > Len(fixes)
          THEN LET rec == [Rec(c) EXCEPT !.fixes = fix_results[c]]
               IN /\ records' = SetRec(c, rec)
                  /\ published' = Publish(c, IncidentUpdateEvent(rec))
                  /\ GoTo(c, "verify_health")
                  /\ UNCHANGED <<exec_calls, fix_results, init_from, http>>
          ELSE /\ exec_calls' = [exec_calls EXCEPT ![c] = Append(@, fixes[i])]
               /\ IF auto_heal_blocks(auto_heal_enabled)
                  THEN /\ fix_results' = [fix_results EXCEPT ![c] = Append(@, AutoHealDisabled)]
                       /\ UNCHANGED <<pc, init_from, http>>
                  ELSE IF mcp_session = None
                  THEN /\ StartInitialize(c, "execute_fix")
                       /\ UNCHANGED fix_results
                  ELSE /\ ExecuteFixBody(c, available_tools)
                       /\ UNCHANGED init_from
               /\ UNCHANGED <<records, published>>
    /\ UNCHANGED <<outside, mcp, incidents, cur, gateway_healthy, health_calls, elapsed,
                   is_healthy, is_actually_running, analysis_exc, exc>>

\* ------------------------------------------------ _handle_incident: verify
\* lines 925-962, run as soon as verify_health has returned is_healthy:
\* critical-fix scan, container.reload(), the verdict and its published
\* update.  The scan or the reload may raise.
Verdict(c, healthy) ==
    /\ is_healthy' = [is_healthy EXCEPT ![c] = Some(healthy)]
    /\ elapsed' = [elapsed EXCEPT ![c] = 0]
    /\ LET scan == all_critical_fixes_succeeded(fix_results[c])
       IN \E live \in RuntimeStatuses \cup {"NotFound"} :
            IF scan = None \/ live = "NotFound"
            THEN /\ Raise(c, IF scan = None THEN "AttributeError" ELSE "NotFound")
                 /\ UNCHANGED <<records, published, is_actually_running>>
            ELSE LET rec == verdict_record(Rec(c), healthy, The(scan), live = "running")
                 IN /\ is_actually_running' =
                         [is_actually_running EXCEPT ![c] = Some(live = "running")]
                    /\ records' = SetRec(c, rec)
                    /\ published' = Publish(c, IncidentUpdateEvent(rec))
                    /\ GoTo(c, "narrate")
                    /\ UNCHANGED exc

\* verify_health loop head at loop time now: poll health_check while the
\* window is open, else return False
HealthPoll(c, now) ==
    IF now < _MAX_HEALTH_WAIT_SECONDS
    THEN /\ CallToolSend(c, "health_check", "health_call", "health_sleep")
         /\ elapsed' = [elapsed EXCEPT ![c] = now]
         /\ UNCHANGED <<records, published, is_healthy, is_actually_running, exc>>
    ELSE /\ Verdict(c, FALSE)
         /\ Await(c, None)

\* lines 921-923 and verify_health lines 319-326: start_time is taken and the
\* first poll is sent
verify_health(c) ==
    /\ pc[c] = "verify_health"
    /\ health_calls' = [health_calls EXCEPT ![c] = @ + 1]
    /\ HealthPoll(c, 0)
    /\ UNCHANGED <<outside, mcp, incidents, cur, init_from, gateway_healthy, fix_results, exec_calls,
                   analysis_exc>>

\* verify_health lines 328-349: a successful result returns True; any other
\* result goes to the sleep
health_call_answer(c, resp) ==
    IF call_tool_result(resp).success
    THEN Verdict(c, TRUE)
    ELSE /\ GoTo(c, "health_sleep")
         /\ elapsed' = [elapsed EXCEPT ![c] = @ + HealthCallSeconds]
         /\ UNCHANGED <<records, published, is_healthy, is_actually_running, exc>>

health_call(c) ==
    /\ pc[c] = "health_call"
    /\ \E resp \in ToolCallResponses : health_call_answer(c, resp)
    /\ Await(c, None)
    /\ UNCHANGED <<outside, mcp, incidents, cur, init_from, gateway_healthy, fix_results, exec_calls,
                   health_calls, analysis_exc>>

\* verify_health line 349 and the loop condition: the sleep ends, the window
\* is tested again
health_sleep(c) ==
    /\ pc[c] = "health_sleep"
    /\ HealthPoll(c, elapsed[c] + _HEALTH_CHECK_INTERVAL)
    /\ UNCHANGED <<outside, mcp, incidents, cur, init_from, gateway_healthy, fix_results, exec_calls,
                   health_calls, analysis_exc>>

\* lines 964-979: explain_for_humans returns a text (never raises); attach it
\* and publish
narrate(c) ==
    /\ pc[c] = "narrate"
    /\ LET rec == [Rec(c) EXCEPT !.explanation = <<"explanation">>]
       IN /\ records' = SetRec(c, rec)
          /\ published' = Publish(c, IncidentUpdateEvent(rec))
    /\ GoTo(c, "returned")
    /\ UNCHANGED <<outside, mcp, incidents, locals, http>>

\* ------------------------------------------------------------- the callers
\* the frame of _handle_incident is gone once it has returned or raised
FrameDropped(c) ==
    /\ cur' = [cur EXCEPT ![c] = 0]
    /\ init_from' = [init_from EXCEPT ![c] = "nobody"]
    /\ gateway_healthy' = [gateway_healthy EXCEPT ![c] = None]
    /\ fix_results' = [fix_results EXCEPT ![c] = <<>>]
    /\ exec_calls' = [exec_calls EXCEPT ![c] = <<>>]
    /\ health_calls' = [health_calls EXCEPT ![c] = 0]
    /\ elapsed' = [elapsed EXCEPT ![c] = 0]
    /\ is_healthy' = [is_healthy EXCEPT ![c] = None]
    /\ is_actually_running' = [is_actually_running EXCEPT ![c] = None]
    /\ analysis_exc' = [analysis_exc EXCEPT ![c] = None]
    /\ exc' = [exc EXCEPT ![c] = "none"]

\* _handle_incident returned: _check_for_anomalies returns and the log pump
\* goes on reading lines
stream_container_logs(c) ==
    /\ pc[c] = "returned"
    /\ GoTo(c, "idle")
    /\ FrameDropped(c)
    /\ UNCHANGED <<outside, mcp, log, http>>

\* _handle_incident raised: the log pump dies, _monitor_container catches the
\* exception, waits and starts a new monitor for the container
monitor_container(c) ==
    /\ pc[c] = "raised"
    /\ GoTo(c, "idle")
    /\ FrameDropped(c)
    /\ UNCHANGED <<outside, mcp, log, http>>

Next ==
    \E c \in Containers :
        \/ handle_incident_open(c)
        \/ get_tools_for_ai(c)
        \/ analyze_root_cause(c)
        \/ preflight(c)
        \/ initialize_session(c)
        \/ discover_tools(c)
        \/ remediate(c)
        \/ call_tool(c)
        \/ verify_health(c)
        \/ health_call(c)
        \/ health_sleep(c)
        \/ narrate(c)
        \/ stream_container_logs(c)
        \/ monitor_container(c)

Spec == Init /\ [][Next]_vars

\* ------------------------------------------------------------ cancellation
\* The task running the pipeline is cancelled (log_task.cancel() in
\* _monitor_container, or the monitor loop shutting down) while it waits for
\* the answer to a tools/call in _call_tool lines 383-394.
\* asyncio.CancelledError derives from BaseException: the "except Exception"
\* clauses of _call_tool (458), execute_fix (266), verify_health (346) and
\* _handle_incident let it pass, and it leaves the pipeline run.
cancel(c) ==
    /\ pc[c] \in {"call_tool", "health_call"}
    /\ Raise(c, "CancelledError")
    /\ Await(c, None)
    /\ UNCHANGED <<outside, mcp, log, cur, init_from, gateway_healthy, fix_results,
                   exec_calls, health_calls, elapsed, is_healthy, is_actually_running,
                   analysis_exc>>

CancelSpec == Init /\ [][Next \/ \E c \in Containers : cancel(c)]_vars

\* ========================================== prompt redaction (llama_analyzer)
\* A text is a tuple of pieces.  An environment variable name is the tuple of
\* its words; a value is one piece, or the pieces of a URL:
\*   scheme "://" [user] ":" password "@" host
MaxEnvVars == 2        \* entries of the environment map

REDACTED == "***REDACTED***"

EnvKeys == {<<"API", "KEY">>, <<"DB", "PASSWORD">>, <<"DATABASE", "URL">>, <<"LOG", "LEVEL">>}

EnvValues ==
    { <<"debug">>,
      <<"s3cr3t">>,
      <<"postgresql", "://", "admin", ":", "hunter2", "@", "db:5432/app">>,
      <<"redis", "://", ":", "hunter2", "@", "cache:6379">>,
      <<"http", "://", "example.com/health">> }

\* str.lower on the words used in names
lower(word) ==
    CASE word = "API" -> "api" [] word = "KEY" -> "key" [] word = "DB" -> "db"
      [] word = "PASSWORD" -> "password" [] word = "DATABASE" -> "database"
      [] word = "URL" -> "url" [] word = "LOG" -> "log" [] word = "LEVEL" -> "level"

\* _redact_sensitive line 543: the tokens looked for in the lowered name
SensitiveTokens == {"key", "secret", "password", "token"}

\* "token in lowered": the words used here contain a token only as a whole
token_in_name(token, key) == \E i \in 1..Len(key) : lower(key[i]) = token

\* _redact_sensitive lines 542-543
key_is_sensitive(key) == \E token \in SensitiveTokens : token_in_name(token, key)

\* the environment maps: dicts in insertion order, as the pairs (key, value)
RECURSIVE EnvMapsUpTo(_)
EnvMapsUpTo(n) ==
    IF n = 0 THEN {<<>>}
    ELSE LET shorter == EnvMapsUpTo(n - 1)
         IN shorter \cup
            { Append(env, [key |-> k, value |-> v]) :
                env \in {e \in shorter : Len(e) = n - 1},
                k \in EnvKeys, v \in EnvValues }

DistinctKeys(env) == \A i, j \in 1..Len(env) : env[i].key = env[j].key => i = j

EnvMaps == {env \in EnvMapsUpTo(MaxEnvVars) : DistinctKeys(env)}

\* _redact_sensitive: the value of a sensitive name is replaced, every other
\* value is copied
_redact_sensitive(env_vars) ==
    [i \in 1..Len(env_vars) |->
        [key |-> env_vars[i].key,
         value |-> IF key_is_sensitive(env_vars[i].key)
                   THEN <<REDACTED>> ELSE env_vars[i].value]]

\* position of the first "@" piece after position from, 0 when there is none
RECURSIVE first_at(_, _)
first_at(value, from) ==
    IF from > Len(value) THEN 0
    ELSE IF value[from] = "@" THEN from
    ELSE first_at(value, from + 1)

\* api_key_detector.redact_url_passwords: the regex
\* (://(?:[^:/@\s]+:)?)([^@\s]+)(@) keeps "://" and an optional "user:",
\* and replaces what follows up to the next "@"
redact_url_passwords(value) ==
    IF Len(value) >= 4 /\ value[2] = "://" /\ first_at(value, 4) # 0
    THEN LET at == first_at(value, 4)
             kept == IF value[3] # ":" /\ value[4] = ":" /\ at > 5 THEN 4 ELSE 2
         IN SubSeq(value, 1, kept) \o <<REDACTED>> \o SubSeq(value, at, Len(value))
    ELSE value

\* json.dumps(..., indent=2) of the redacted map: one line per entry, the
\* name joined from its words, then ": ", then the value text
json_dumps(env) ==
    [i \in 1..Len(env) |-> <<env[i].key, ": ", env[i].value>>]

\* _build_context lines 499-503: the section is rendered only for a
\* non-empty map
build_context ==
    /\ prompt = None
    /\ prompt' = Some(IF environment_vars = <<>> THEN <<>>
                      ELSE json_dumps(_redact_sensitive(environment_vars)))
    /\ UNCHANGED <<pipeline, periphery, bus, redis, environment_vars>>

\* the analyzer is called again with another environment
analyze_again ==
    /\ prompt # None
    /\ \E env \in EnvMaps : environment_vars' = env
    /\ prompt' = None
    /\ UNCHANGED <<pipeline, periphery, bus, redis>>

RedactInit ==
    /\ PipelineInit /\ auto_heal_enabled
    /\ BusInit
    /\ RedisInit
    /\ PeripheryInit({0})
    /\ environment_vars \in EnvMaps
    /\ prompt = None

RedactNext == build_context \/ analyze_again

RedactSpec == RedactInit /\ [][RedactNext]_vars

\* =============================================== event bus (event_bus.py)
\* Every operation of SentinelEventBus runs without suspending: the lock is
\* never held across an await, so acquiring it never waits, and
\* _Subscriber.put / close only use put_nowait and get_nowait.  publish,
\* subscribe and SentinelSubscription.close are one step each.  An iterator
\* suspends in queue.get() on an empty queue and at each yield.
MaxPublishes == 3      \* publish calls in one behaviour
MaxQueue == 2          \* asyncio.Queue(maxsize=...) of a subscriber (256 in the code)

\* an event payload, identified by the number of its publish call
Event(n) == [type |-> "event", id |-> n]

\* the sentinel {"type": "__disconnect__"}
DISCONNECT == [type |-> "__disconnect__", id |-> 0]

\* mutant of get_nowait: the newest queued event is taken
get_nowait_lifo(q) == [event |-> q[Len(q)], rest |-> SubSeq(q, 1, Len(q) - 1)]

\* asyncio.Queue.get_nowait / the return of queue.get(): the oldest event
get_nowait(q) == [event |-> Head(q), rest |-> Tail(q)]

\* mutant of put: on overflow the new event is discarded
put_drop_newest(q, event) ==
    IF Len(q) >= MaxQueue THEN q ELSE Append(q, event)

\* _Subscriber.put: put_nowait; on QueueFull the oldest event is removed and
\* put_nowait is repeated
put(q, event) ==
    IF Len(q) >= MaxQueue THEN Append(get_nowait(q).rest, event) ELSE Append(q, event)

\* the events put removes from a queue
overflow(q) == IF Len(q) >= MaxQueue THEN {get_nowait(q).event} ELSE {}

\* mutant of subscriber_close: no sentinel is queued
subscriber_close_silent(q) == q

\* _Subscriber.close: the sentinel is queued like an event
subscriber_close(q) == put(q, DISCONNECT)

\* SentinelEventBus.subscribe: a new queue is registered and its handle
\* returned
subscribe(s) ==
    /\ handle[s] = "none"
    /\ subscribers' = subscribers \cup {s}
    /\ handle' = [handle EXCEPT ![s] = "open"]
    /\ UNCHANGED <<pipeline, periphery, redaction, redis, queue, iter, yielded, sent, listeners_at, dropped>>

\* SentinelEventBus.publish: the listeners are snapshotted and the event is
\* put on each listener's queue
publish ==
    /\ sent < MaxPublishes
    /\ sent' = sent + 1
    /\ listeners_at' = Append(listeners_at, subscribers)
    /\ queue' = [s \in Subscriptions |->
                   IF s \in subscribers THEN put(queue[s], Event(sent + 1)) ELSE queue[s]]
    /\ dropped' = [s \in Subscriptions |->
                     IF s \in subscribers THEN dropped[s] \cup overflow(queue[s])
                     ELSE dropped[s]]
    /\ UNCHANGED <<pipeline, periphery, redaction, redis, subscribers, handle, iter, yielded>>

\* SentinelSubscription.close: the first call marks the handle closed,
\* unsubscribes and queues the sentinel; a later call returns at once
close(s) ==
    /\ handle[s] # "none"
    /\ IF handle[s] = "closed"
       THEN UNCHANGED <<handle, subscribers, queue, dropped>>
       ELSE /\ handle' = [handle EXCEPT ![s] = "closed"]
            /\ subscribers' = subscribers \ {s}
            /\ queue' = [queue EXCEPT ![s] = subscriber_close(@)]
            /\ dropped' = [dropped EXCEPT ![s] = @ \cup overflow(queue[s])]
    /\ UNCHANGED <<pipeline, periphery, redaction, redis, iter, yielded, sent, listeners_at>>

\* _iterate after queue.get() returned: the sentinel ends the iteration, any
\* other event is yielded
Deliver(s) ==
    LET got == get_nowait(queue[s])
    IN /\ queue' = [queue EXCEPT ![s] = got.rest]
       /\ IF got.event.type = "__disconnect__"
          THEN /\ iter' = [iter EXCEPT ![s] = "done"]
               /\ UNCHANGED yielded
          ELSE /\ iter' = [iter EXCEPT ![s] = "yielded"]
               /\ yielded' = [yielded EXCEPT ![s] = Append(@, got.event.id)]

\* _iterate at its loop head: "while not self._closed", then queue.get(),
\* which returns at once from a non-empty queue and suspends on an empty one
LoopHead(s) ==
    IF handle[s] = "closed"
    THEN /\ iter' = [iter EXCEPT ![s] = "done"]
         /\ UNCHANGED <<queue, yielded>>
    ELSE IF queue[s] = <<>>
    THEN /\ iter' = [iter EXCEPT ![s] = "waiting"]
         /\ UNCHANGED <<queue, yielded>>
    ELSE Deliver(s)

\* "async for event in subscription": the iterator is started
iterate(s) ==
    /\ handle[s] # "none"
    /\ iter[s] = "none"
    /\ LoopHead(s)
    /\ UNCHANGED <<pipeline, periphery, redaction, redis, subscribers, handle, sent, listeners_at, dropped>>

\* the consumer is done with the event it was given and asks for the next
iterate_next(s) ==
    /\ iter[s] = "yielded"
    /\ LoopHead(s)
    /\ UNCHANGED <<pipeline, periphery, redaction, redis, subscribers, handle, sent, listeners_at, dropped>>

\* the iterator suspended in queue.get() is resumed once the queue holds
\* something
iterate_wake(s) ==
    /\ iter[s] = "waiting"
    /\ queue[s] # <<>>
    /\ Deliver(s)
    /\ UNCHANGED <<pipeline, periphery, redaction, redis, subscribers, handle, sent, listeners_at, dropped>>

BusSpecInit ==
    /\ PipelineInit /\ auto_heal_enabled
    /\ RedactionIdle
    /\ BusInit
    /\ RedisInit
    /\ PeripheryInit({0})

BusNext ==
    \/ publish
    \/ \E s \in Subscriptions :
          \/ subscribe(s)
          \/ close(s)
          \/ iterate(s)
          \/ iterate_next(s)
          \/ iterate_wake(s)

BusSpec == BusSpecInit /\ [][BusNext]_vars

\* the event loop runs every task that is ready: a resumed iterator and a
\* consumer that asks for the next event get their turn
BusLiveSpec ==
    /\ BusSpec
    /\ \A s \in Subscriptions :
          WF_vars(iterate_next(s)) /\ WF_vars(iterate_wake(s))

\* ============================== Redis event bus (redis_event_bus.py)
\* The Redis server delivers a published message to every PubSub connection
\* subscribed to the channel; a message waits in the connection until one
\* get_message call reads it.  subscribe() suspends in PubSub.subscribe.

\* RedisEventBus.subscribe lines 86-87: the new PubSub is stored in
\* self._pubsub and the call suspends in "await self._pubsub.subscribe(...)"
redis_subscribe(k) ==
    /\ rpc[k] = "idle"
    /\ bus_pubsub' = k
    /\ rpc' = [rpc EXCEPT ![k] = "subscribing"]
    /\ UNCHANGED <<pipeline, periphery, redaction, bus, channel, inbox, rsub, received, rsent,
                   returned_at, started_at>>

\* RedisEventBus.subscribe line 88: the PubSub of this call is subscribed;
\* the handle wraps whatever self._pubsub holds now
redis_subscribed(k) ==
    /\ rpc[k] = "subscribing"
    /\ channel' = channel \cup {k}
    /\ rsub' = [rsub EXCEPT ![k] = bus_pubsub]
    /\ rpc' = [rpc EXCEPT ![k] = "attached"]
    /\ UNCHANGED <<pipeline, periphery, redaction, bus, bus_pubsub, inbox, received, rsent,
                   returned_at, started_at>>

\* RedisEventBus.publish line 75: the server hands the message to every
\* subscribed PubSub
redis_publish ==
    /\ rsent < MaxPublishes
    /\ rsent' = rsent + 1
    /\ inbox' = [p \in Clients |->
                   IF p \in channel THEN Append(inbox[p], Event(rsent + 1)) ELSE inbox[p]]
    /\ returned_at' = Append(returned_at, {k \in Clients : rpc[k] = "attached"})
    /\ started_at' = Append(started_at, {k \in Clients : rpc[k] # "idle"})
    /\ UNCHANGED <<pipeline, periphery, redaction, bus, bus_pubsub, channel, rsub, rpc, received>>

\* RedisSubscription._iterate lines 118-125: get_message reads the next
\* message of the wrapped PubSub and the event is yielded
redis_get_message(k) ==
    /\ rpc[k] = "attached"
    /\ inbox[rsub[k]] # <<>>
    /\ received' = [received EXCEPT ![k] = Append(@, Head(inbox[rsub[k]]).id)]
    /\ inbox' = [inbox EXCEPT ![rsub[k]] = Tail(@)]
    /\ UNCHANGED <<pipeline, periphery, redaction, bus, bus_pubsub, channel, rsub, rpc, rsent,
                   returned_at, started_at>>

\* RedisSubscription.close: the wrapped PubSub is unsubscribed and closed
redis_close(k) ==
    /\ rpc[k] = "attached"
    /\ rpc' = [rpc EXCEPT ![k] = "closed"]
    /\ channel' = channel \ {rsub[k]}
    /\ UNCHANGED <<pipeline, periphery, redaction, bus, bus_pubsub, inbox, rsub, received, rsent,
                   returned_at, started_at>>

RedisSpecInit ==
    /\ PipelineInit /\ auto_heal_enabled
    /\ RedactionIdle
    /\ BusInit
    /\ RedisInit
    /\ PeripheryInit({0})

RedisNext ==
    \/ redis_publish
    \/ \E k \in Clients :
          \/ redis_subscribe(k)
          \/ redis_subscribed(k)
          \/ redis_get_message(k)
          \/ redis_close(k)

RedisSpec == RedisSpecInit /\ [][RedisNext]_vars

\* ===================== Redis event history (redis_event_bus.py, publish)
\* RedisEventBus.publish awaits three commands in turn: PUBLISH, LPUSH and
\* LTRIM.  Each command is atomic in the Redis server; the coroutine suspends
\* at each await, so the publish calls of different tasks interleave between
\* the commands.  The list lives in the server and outlives the process.

\* Redis LTRIM key 0 stop
ltrim(list, stop) ==
    IF Len(list) > stop + 1 THEN SubSeq(list, 1, stop + 1) ELSE list

\* publish lines 74-75: the message is serialised and handed to PUBLISH
history_publish(c) ==
    /\ hpc[c] = "idle"
    /\ hsent < MaxPublishes
    /\ hsent' = hsent + 1
    /\ hmsg' = [hmsg EXCEPT ![c] = hsent + 1]
    /\ hpc' = [hpc EXCEPT ![c] = "lpush"]
    /\ UNCHANGED <<pipeline, redaction, bus, redis, lifecycle, pump, ws, listener, history>>

\* publish line 76: LPUSH puts the message at the head of the list
history_lpush(c) ==
    /\ hpc[c] = "lpush"
    /\ history' = <<Event(hmsg[c])>> \o history
    /\ hpc' = [hpc EXCEPT ![c] = "ltrim"]
    /\ UNCHANGED <<pipeline, redaction, bus, redis, lifecycle, pump, ws, listener, hmsg, hsent>>

\* publish line 77
history_ltrim(c) ==
    /\ hpc[c] = "ltrim"
    /\ history' = ltrim(history, _MAX_HISTORY_SIZE - 1)
    /\ hpc' = [hpc EXCEPT ![c] = "idle"]
    /\ UNCHANGED <<pipeline, redaction, bus, redis, lifecycle, pump, ws, listener, hmsg, hsent>>

\* publish lines 78-79: a command raised (connection lost, timeout); the
\* exception is printed and publish returns
history_failed(c) ==
    /\ hpc[c] \in {"lpush", "ltrim"}
    /\ hpc' = [hpc EXCEPT ![c] = "idle"]
    /\ UNCHANGED <<pipeline, redaction, bus, redis, lifecycle, pump, ws, listener, history, hmsg, hsent>>

\* the server holds what earlier publishes left under the key: nothing, or
\* a list one short of the cap, or a list at the cap (ids 0, -1, ..., newest
\* at the head)
HistoryInit ==
    /\ PipelineInit /\ auto_heal_enabled
    /\ RedactionIdle
    /\ BusInit
    /\ RedisInit
    /\ PeripheryInit({0, _MAX_HISTORY_SIZE - 1, _MAX_HISTORY_SIZE})

HistoryNext ==
    \E c \in Containers :
        \/ history_publish(c)
        \/ history_lpush(c)
        \/ history_ltrim(c)
        \/ history_failed(c)

HistorySpec == HistoryInit /\ [][HistoryNext]_vars

\* ========== log pump and fast classifier (monitor.py, ai/cerebras_client.py)
\* One _stream_container_logs task per container.  A reader thread puts the
\* container's lines on the task's queue; the task reads them one at a time.
\* All tasks run on one event loop thread: a callback runs until its next
\* await, and a synchronous call made from a coroutine keeps the thread until
\* it returns.  CerebrasAnomalyDetector.detect_anomaly is a plain function
\* using the synchronous OpenAI client; _check_for_anomalies calls it without
\* await and without a worker thread (monitor.py line 762).

\* the other tasks of the scheduler
OtherTasks == {"_track_container_stats", "_listen_docker_events", "websocket_endpoint"}

\* what the chat completion call of the classifier comes back with
ClassifierResponses ==
    [kind : {"verdict"}, is_anomaly : BOOLEAN, severity : {"low", "critical"}]
    \cup [kind : {"transport_error", "malformed_json", "schema_violation"},
          is_anomaly : {FALSE}, severity : {"low"}]

AnomalyDetectionResult(is_anomaly, confidence, anomaly_type, severity, summary) ==
    [is_anomaly |-> is_anomaly, confidence |-> confidence,
     anomaly_type |-> anomaly_type, severity |-> severity, summary |-> summary]

\* detect_anomaly lines 135-141
benign(error) ==
    AnomalyDetectionResult(FALSE, 0, "none", "low", <<"Error analyzing logs: ", error>>)

\* mutant of detect_anomaly_body: a response that fails validation is not
\* caught
detect_anomaly_body_schema_raises(resp) ==
    CASE resp.kind = "verdict" ->
            [raised |-> FALSE,
             result |-> AnomalyDetectionResult(resp.is_anomaly, 1,
                            IF resp.is_anomaly THEN "crash" ELSE "none",
                            resp.severity, <<"summary">>)]
      [] resp.kind = "schema_violation" ->
            [raised |-> TRUE, result |-> benign(resp.kind)]
      [] OTHER -> [raised |-> FALSE, result |-> benign(resp.kind)]

\* detect_anomaly lines 118-153, one execution of the function body: the
\* request and _parse_completion run inside try; every Exception (the
\* client's transport errors, json.loads, CerebrasClientError) ends in the
\* except clause, which returns the benign result
detect_anomaly_body(resp) ==
    CASE resp.kind = "verdict" ->
            [raised |-> FALSE,
             result |-> AnomalyDetectionResult(resp.is_anomaly, 1,
                            IF resp.is_anomaly THEN "crash" ELSE "none",
                            resp.severity, <<"summary">>)]
      [] OTHER -> [raised |-> FALSE, result |-> benign(resp.kind)]

\* _check_for_anomalies lines 766-769
escalates(result) == result.is_anomaly /\ result.severity \in {"high", "critical"}

\* _stream_container_logs lines 726-729
check_due(lines, waited) ==
    lines >= log_lines_per_check \/ waited >= log_check_interval_seconds

\* _stream_container_logs lines 731-732: the check is over
CheckDone(c) ==
    /\ lines_since_check' = [lines_since_check EXCEPT ![c] = 0]
    /\ last_check_time' = [last_check_time EXCEPT ![c] = clock]
    /\ ppc' = [ppc EXCEPT ![c] = "get"]

\* time passes, whatever the loop thread is doing
tick ==
    /\ clock < MaxTime
    /\ clock' = clock + 1
    /\ UNCHANGED <<pipeline, redaction, bus, redis, lifecycle, stored, ws, listener, arrived, log_queue, lines_since_check, last_check_time,
                   ppc, attempt, anomaly, runs, loop_thread, last_ran>>

\* _pump_logs lines 694-696, in the reader thread of container c
pump_logs(c) ==
    /\ arrived < MaxLines
    /\ arrived' = arrived + 1
    /\ log_queue' = [log_queue EXCEPT ![c] = @ + 1]
    /\ UNCHANGED <<pipeline, redaction, bus, redis, lifecycle, stored, ws, listener, clock, lines_since_check, last_check_time, ppc, attempt,
                   anomaly, runs, loop_thread, last_ran>>

\* _stream_container_logs lines 709-730 and _check_for_anomalies lines
\* 738-762: one line is read, buffered and published; when a check is due
\* and the recent lines are not blank the classifier is called
log_line(c) ==
    /\ loop_thread = "none"
    /\ ppc[c] = "get"
    /\ log_queue[c] > 0
    /\ log_queue' = [log_queue EXCEPT ![c] = @ - 1]
    /\ IF check_due(lines_since_check[c] + 1, clock - last_check_time[c])
       THEN \E blank \in BOOLEAN :
               IF blank
               THEN /\ CheckDone(c)
                    /\ UNCHANGED <<attempt, loop_thread>>
               ELSE /\ ppc' = [ppc EXCEPT ![c] = "detect_anomaly"]
                    /\ attempt' = [attempt EXCEPT ![c] = 1]
                    /\ loop_thread' = c
                    /\ lines_since_check' = [lines_since_check EXCEPT ![c] = @ + 1]
                    /\ UNCHANGED last_check_time
       ELSE /\ lines_since_check' = [lines_since_check EXCEPT ![c] = @ + 1]
            /\ UNCHANGED <<last_check_time, ppc, attempt, loop_thread>>
    /\ UNCHANGED <<pipeline, redaction, bus, redis, lifecycle, stored, ws, listener, clock, arrived, anomaly, runs, last_ran>>

\* mutant of detect_anomaly_answer: the pipeline run is started as a task of
\* its own and the pump goes on reading
detect_anomaly_answer_spawns(c, resp) ==
    LET outcome == detect_anomaly_body(resp)
    IN /\ anomaly' = [anomaly EXCEPT ![c] = Some(outcome.result)]
       /\ loop_thread' = "none"
       /\ runs' = [runs EXCEPT ![c] = IF escalates(outcome.result) THEN @ + 1 ELSE @]
       /\ CheckDone(c)
       /\ UNCHANGED attempt

\* the chat completion call of container c's check comes back with resp.
\* tenacity (lines 108-110) calls the body again while it raises and fewer
\* than stop_after_attempt attempts were made, then raises RetryError; a
\* returned result goes to _check_for_anomalies lines 766-773
detect_anomaly_answer(c, resp) ==
    LET outcome == detect_anomaly_body(resp)
    IN IF outcome.raised
       THEN IF attempt[c] < stop_after_attempt
            THEN /\ attempt' = [attempt EXCEPT ![c] = @ + 1]
                 /\ UNCHANGED <<lines_since_check, last_check_time, ppc, anomaly, runs,
                                loop_thread>>
            ELSE /\ ppc' = [ppc EXCEPT ![c] = "raised"]
                 /\ loop_thread' = "none"
                 /\ UNCHANGED <<lines_since_check, last_check_time, attempt, anomaly, runs>>
       ELSE /\ anomaly' = [anomaly EXCEPT ![c] = Some(outcome.result)]
            /\ loop_thread' = "none"
            /\ UNCHANGED attempt
            /\ IF escalates(outcome.result)
               THEN /\ ppc' = [ppc EXCEPT ![c] = "_handle_incident"]
                    /\ runs' = [runs EXCEPT ![c] = @ + 1]
                    /\ UNCHANGED <<lines_since_check, last_check_time>>
               ELSE CheckDone(c) /\ UNCHANGED runs

detect_anomaly(c) ==
    /\ ppc[c] = "detect_anomaly"
    /\ \E resp \in ClassifierResponses : detect_anomaly_answer(c, resp)
    /\ UNCHANGED <<pipeline, redaction, bus, redis, lifecycle, stored, ws, listener, clock, arrived, log_queue, last_ran>>

\* _check_for_anomalies line 773: the awaited pipeline run returns, or lets
\* an exception through to the pump
handle_incident_over(c) ==
    /\ loop_thread = "none"
    /\ ppc[c] = "_handle_incident"
    /\ runs' = [runs EXCEPT ![c] = @ - 1]
    /\ \/ CheckDone(c)
       \/ /\ ppc' = [ppc EXCEPT ![c] = "raised"]
          /\ UNCHANGED <<lines_since_check, last_check_time>>
    /\ UNCHANGED <<pipeline, redaction, bus, redis, lifecycle, stored, ws, listener, clock, arrived, log_queue, attempt, anomaly, loop_thread,
                   last_ran>>

\* _monitor_container lines 387-406: the pump died with an exception; a new
\* monitor, with a new pump and a new queue, is started for the container
pump_restart(c) ==
    /\ loop_thread = "none"
    /\ ppc[c] = "raised"
    /\ log_queue' = [log_queue EXCEPT ![c] = 0]
    /\ attempt' = [attempt EXCEPT ![c] = 0]
    /\ CheckDone(c)
    /\ UNCHANGED <<pipeline, redaction, bus, redis, lifecycle, stored, ws, listener, clock, arrived, anomaly, runs, loop_thread, last_ran>>

\* another task of the scheduler runs one callback
run_task(t) ==
    /\ loop_thread = "none"
    /\ last_ran' = t
    /\ UNCHANGED <<pipeline, redaction, bus, redis, lifecycle, stored, ws, listener, clock, arrived, log_queue, lines_since_check,
                   last_check_time, ppc, attempt, anomaly, runs, loop_thread>>

PumpNext ==
    \/ tick
    \/ \E c \in Containers :
          \/ pump_logs(c)
          \/ log_line(c)
          \/ detect_anomaly(c)
          \/ handle_incident_over(c)
          \/ pump_restart(c)
    \/ \E t \in OtherTasks : run_task(t)

PumpSpec == Init /\ [][PumpNext]_vars

\* the event loop runs every callback that is ready and time passes; the
\* containers write lines when they like
PumpLiveSpec ==
    /\ PumpSpec
    /\ WF_vars(tick)
    /\ \A c \in Containers :
          /\ WF_vars(log_line(c))
          /\ WF_vars(detect_anomaly(c))
          /\ WF_vars(handle_incident_over(c))
          /\ WF_vars(pump_restart(c))

\* ===================== websocket handler (api/websocket_server.py, /ws)
\* One websocket_endpoint call per client.  The handler suspends in accept,
\* in the send of the bootstrap frame, in event_bus.subscribe and in the send
\* of each event; events are published meanwhile.  An awaited call ends well,
\* times out (asyncio.TimeoutError from wait_for), finds the client gone
\* (WebSocketDisconnect) or raises another exception ("error").

\* lines 73-76, 83-86 and 115-123: how the handler ends when an awaited call
\* before the forwarding loop does not end well
HandlerEnds(k, outcome) ==
    /\ wpc' = [wpc EXCEPT ![k] = "returned"]
    /\ ws_exc' = [ws_exc EXCEPT ![k] = outcome]
    /\ close_code' = [close_code EXCEPT ![k] =
                         CASE outcome = "timeout" -> Some(1013)
                           [] outcome = "error" -> Some(1011)
                           [] OTHER -> None]

\* a client opens /ws: the handler awaits websocket.accept() (line 61)
websocket_endpoint(k) ==
    /\ wpc[k] = "idle"
    /\ wpc' = [wpc EXCEPT ![k] = "accept"]
    /\ UNCHANGED <<pipeline, redaction, bus, redis, lifecycle, stored, pump, listener, close_code, ws_exc, snapshot_at, ws_inbox, frames,
                   skipped, wsent>>

\* lines 61-72: accept is over; the snapshots are taken and the send of the
\* bootstrap frame is started
ws_accept(k) ==
    /\ wpc[k] = "accept"
    /\ \E outcome \in {"ok", "disconnect", "error"} :
          IF outcome = "ok"
          THEN /\ snapshot_at' = [snapshot_at EXCEPT ![k] = wsent]
               /\ wpc' = [wpc EXCEPT ![k] = "bootstrap"]
               /\ UNCHANGED <<close_code, ws_exc>>
          ELSE /\ HandlerEnds(k, outcome)
               /\ UNCHANGED snapshot_at
    /\ UNCHANGED <<pipeline, redaction, bus, redis, lifecycle, stored, pump, listener, ws_inbox, frames, skipped, wsent>>

\* lines 68-82: the send of the bootstrap frame is over; subscribe is called
ws_bootstrap(k) ==
    /\ wpc[k] = "bootstrap"
    /\ \E outcome \in {"ok", "timeout", "disconnect", "error"} :
          IF outcome = "ok"
          THEN /\ frames' = [frames EXCEPT ![k] = Append(@, [type |-> "bootstrap", id |-> 0])]
               /\ wpc' = [wpc EXCEPT ![k] = "subscribe"]
               /\ UNCHANGED <<close_code, ws_exc>>
          ELSE /\ HandlerEnds(k, outcome)
               /\ UNCHANGED frames
    /\ UNCHANGED <<pipeline, redaction, bus, redis, lifecycle, stored, pump, listener, snapshot_at, ws_inbox, skipped, wsent>>

\* lines 79-89: event_bus.subscribe() is over; from now on published events
\* reach the subscription, and the handler iterates over it
ws_subscribe(k) ==
    /\ wpc[k] = "subscribe"
    /\ \E outcome \in {"ok", "timeout", "error"} :
          IF outcome = "ok"
          THEN /\ wpc' = [wpc EXCEPT ![k] = "forward"]
               /\ UNCHANGED <<close_code, ws_exc>>
          ELSE HandlerEnds(k, outcome)
    /\ UNCHANGED <<pipeline, redaction, bus, redis, lifecycle, stored, pump, listener, snapshot_at, ws_inbox, frames, skipped, wsent>>

\* SRESentinel._publish_event -> event_bus.publish: the event reaches the
\* subscription of every handler that is iterating
ws_publish ==
    /\ wsent < MaxPublishes
    /\ wsent' = wsent + 1
    /\ ws_inbox' = [k \in Clients |->
                      IF wpc[k] = "forward" THEN Append(ws_inbox[k], Event(wsent + 1))
                      ELSE ws_inbox[k]]
    /\ UNCHANGED <<pipeline, redaction, bus, redis, lifecycle, stored, pump, listener, wpc, close_code, ws_exc, snapshot_at, frames, skipped>>

\* lines 88-114: the next event is sent.  A timeout skips the event (94-96);
\* a disconnect leaves the loop (97-99); any other exception is caught at
\* line 108 and printed; CancelledError is raised again (105-107).  The
\* finally clause closes the subscription, and the handler is over without
\* a call of websocket.close.
ws_forward(k) ==
    /\ wpc[k] = "forward"
    /\ ws_inbox[k] # <<>>
    /\ \E outcome \in {"ok", "timeout", "disconnect", "error", "cancelled"} :
          CASE outcome = "ok" ->
                 /\ frames' = [frames EXCEPT ![k] = Append(@, Head(ws_inbox[k]))]
                 /\ ws_inbox' = [ws_inbox EXCEPT ![k] = Tail(@)]
                 /\ UNCHANGED <<wpc, ws_exc, skipped>>
            [] outcome = "timeout" ->
                 /\ skipped' = [skipped EXCEPT ![k] = @ \cup {Head(ws_inbox[k]).id}]
                 /\ ws_inbox' = [ws_inbox EXCEPT ![k] = Tail(@)]
                 /\ UNCHANGED <<wpc, ws_exc, frames>>
            [] outcome \in {"disconnect", "error"} ->
                 /\ wpc' = [wpc EXCEPT ![k] = "returned"]
                 /\ ws_exc' = [ws_exc EXCEPT ![k] = outcome]
                 /\ ws_inbox' = [ws_inbox EXCEPT ![k] = <<>>]
                 /\ UNCHANGED <<frames, skipped>>
            [] outcome = "cancelled" ->
                 /\ wpc' = [wpc EXCEPT ![k] = "raised"]
                 /\ ws_exc' = [ws_exc EXCEPT ![k] = outcome]
                 /\ ws_inbox' = [ws_inbox EXCEPT ![k] = <<>>]
                 /\ UNCHANGED <<frames, skipped>>
    /\ UNCHANGED <<pipeline, redaction, bus, redis, lifecycle, stored, pump, listener, close_code, snapshot_at, wsent>>

WsNext ==
    \/ ws_publish
    \/ \E k \in Clients :
          \/ websocket_endpoint(k)
          \/ ws_accept(k)
          \/ ws_bootstrap(k)
          \/ ws_subscribe(k)
          \/ ws_forward(k)

WsSpec == Init /\ [][WsNext]_vars

\* ============== container-event listener (monitor.py, _listen_docker_events)
\* The listener starts a reader thread that iterates docker_client.events()
\* and puts each event on event_queue; an exception in the thread is put on
\* the queue as {"error": ...} and the thread ends.  The listener waits for
\* the next item for at most 5 s at a time.

\* mutant of listener_except: an unexpected exception is not caught
listener_except_unhandled(exception) ==
    CASE exception \in {"TimeoutError", "DockerException"} -> [pc |-> "sleep", delay |-> 5]
      [] OTHER -> [pc |-> "raised", delay |-> 0]

\* lines 228-241: the except clauses of the outer try
listener_except(exception) ==
    CASE exception \in {"TimeoutError", "DockerException"} -> [pc |-> "sleep", delay |-> 5]
      [] OTHER -> [pc |-> "sleep", delay |-> 10]

\* lines 176-204: a new queue and a new reader thread
listen_connect ==
    /\ lpc = "connect"
    /\ lpc' = "wait"
    /\ reader' = "alive"
    /\ event_queue' = <<>>
    /\ UNCHANGED <<pipeline, redaction, bus, redis, lifecycle, stored, pump, ws, delay, listener_exc, failures>>

\* _event_stream_thread lines 190-194: the runtime reports a container event
event_stream_event ==
    /\ reader = "alive"
    /\ Len(event_queue) < MaxPending
    /\ event_queue' = Append(event_queue, "event")
    /\ UNCHANGED <<pipeline, redaction, bus, redis, lifecycle, stored, pump, ws, lpc, reader, delay, listener_exc, failures>>

\* _event_stream_thread lines 195-198: the stream raises; the error is put
\* on the queue and the thread ends
event_stream_error ==
    /\ reader = "alive"
    /\ failures < MaxFailures
    /\ failures' = failures + 1
    /\ event_queue' = Append(event_queue, "error")
    /\ reader' = "dead"
    /\ UNCHANGED <<pipeline, redaction, bus, redis, lifecycle, stored, pump, ws, lpc, delay, listener_exc>>

\* _event_stream_thread line 190: the stream ends without an exception and
\* the thread ends
event_stream_ends ==
    /\ reader = "alive"
    /\ failures < MaxFailures
    /\ failures' = failures + 1
    /\ reader' = "dead"
    /\ UNCHANGED <<pipeline, redaction, bus, redis, lifecycle, stored, pump, ws, lpc, event_queue, delay, listener_exc>>

\* lines 210-217: an item is taken from the queue; an error item raises
\* Exception; an event is handled, which can raise
listen_event ==
    /\ lpc = "wait"
    /\ event_queue # <<>>
    /\ event_queue' = Tail(event_queue)
    /\ \E outcome \in {"ok", "DockerException", "Exception"} :
          LET exception == IF Head(event_queue) = "error" THEN "Exception" ELSE outcome
          IN IF exception = "ok"
             THEN UNCHANGED <<lpc, delay, listener_exc, failures>>
             ELSE /\ lpc' = listener_except(exception).pc
                  /\ delay' = listener_except(exception).delay
                  /\ listener_exc' = exception
                  /\ IF Head(event_queue) = "error"
                     THEN UNCHANGED failures
                     ELSE failures < MaxFailures /\ failures' = failures + 1
    /\ UNCHANGED <<pipeline, redaction, bus, redis, lifecycle, stored, pump, ws, reader>>

\* lines 219-226: no item for 5 s; a dead thread ends the inner loop and the
\* outer loop starts over, a living thread means waiting again
listen_timeout ==
    /\ lpc = "wait"
    /\ event_queue = <<>>
    /\ lpc' = IF reader = "dead" THEN "connect" ELSE "wait"
    /\ delay' = IF reader = "dead" THEN 0 ELSE delay
    /\ UNCHANGED <<pipeline, redaction, bus, redis, lifecycle, stored, pump, ws, reader, event_queue, listener_exc, failures>>

\* lines 231, 235, 241: the sleep is over; the outer loop starts over
listen_reconnect ==
    /\ lpc = "sleep"
    /\ lpc' = "connect"
    /\ UNCHANGED <<pipeline, redaction, bus, redis, lifecycle, stored, pump, ws, reader, event_queue, delay, listener_exc,
                   failures>>

ListenerNext ==
    \/ listen_connect
    \/ event_stream_event
    \/ event_stream_error
    \/ event_stream_ends
    \/ listen_event
    \/ listen_timeout
    \/ listen_reconnect

\* the listener is a task of the running event loop: its wake-ups (an item
\* on the queue, the 5 s timeout, the end of a sleep) are served
ListenerSpec ==
    /\ Init /\ [][ListenerNext]_vars
    /\ WF_vars(listen_connect) /\ WF_vars(listen_event)
    /\ WF_vars(listen_timeout) /\ WF_vars(listen_reconnect)

\* ===== container lifecycle (monitor.py: events, monitors, pumps, samplers)
\* The container runtime starts, stops, restarts and removes the labelled
\* containers and reports each change as container events; the containers
\* write log lines.  _handle_docker_event handles the events one at a time.
\* A _monitor_container task runs a log pump and a metrics sampler as child
\* tasks.  The first step of a new monitor (lines 363-374: publish the
\* container's state, create the children) is taken with its creation, and
\* the reader thread's hand-over of a line with the pump's reading of it.

MaxChanges == 3        \* state changes of the container runtime in one behaviour
MaxWritten == 1        \* log lines the containers write in one behaviour
MaxTasks == 2          \* _monitor_container tasks created in one behaviour
MaxSamples == 1        \* periodic samples published in one behaviour

\* _monitor_container line 399: asyncio.sleep(10)
restart_delay == 10

\* the total of a per-container count
Sum(count) == count["api"] + count["worker"]

\* docker_client.containers.get(id), container.stats and container.reload as
\* the runtime answers them for container c: NotFound once it is removed,
\* else the container or a failure of the runtime connection
Lookups(c) == IF runtime[c] = "removed" THEN {"NotFound"} ELSE {"found", "error"}

\* a monitor task for container c with its two children; the follow-logs
\* stream of the pump starts at the first line of the container's log
\* (container.logs(stream=True, follow=True), line 694: no since, no tail) and
\* ends where the log stands when the container's current run ends
Task(c) ==
    [id |-> c, state |-> "run", log_task |-> "stream", stats_task |-> "sample",
     pos |-> 0, limit |-> IF runtime[c] = "running" THEN None ELSE Some(written[c]),
     delay |-> 0]

\* the run of container c ends: the follow-logs streams attached to it end
\* after the lines written so far
EndStreams(c, ts) ==
    [t \in DOMAIN ts |->
        IF ts[t].id = c /\ ts[t].log_task = "stream" /\ ts[t].limit = None
        THEN [ts[t] EXCEPT !.limit = Some(written[c])]
        ELSE ts[t]]

\* _has_monitor_label lines 297-306; every container of the model is labelled
_has_monitor_label(answer) == answer = "found"

\* mutant of _start_monitoring_container: the tracked-task map is not consulted
start_monitoring_container_untested(c, ts, map, states) ==
    [tasks |-> Append(ts, Task(c)),
     map |-> [map EXCEPT ![c] = Len(ts) + 1],
     states |-> [states EXCEPT ![c] = Some(runtime[c])]]

\* _start_monitoring_container lines 164-170 with the first step of the new
\* monitor (_publish_container_state line 588), on the task list ts, the
\* tracked-task map and container_states
_start_monitoring_container(c, ts, map, states) ==
    IF map[c] = 0
    THEN [tasks |-> Append(ts, Task(c)),
          map |-> [map EXCEPT ![c] = Len(ts) + 1],
          states |-> [states EXCEPT ![c] = Some(runtime[c])]]
    ELSE [tasks |-> ts, map |-> map, states |-> states]

\* _cleanup_completed_tasks lines 310-317: tasks that are done leave the map
_cleanup_completed_tasks ==
    [c \in Containers |->
        IF _monitoring_tasks[c] # 0 /\ tasks[_monitoring_tasks[c]].state \in {"done", "cancelled"}
        THEN 0 ELSE _monitoring_tasks[c]]

\* mutant of sample: the sampler goes on after the offline sample
sample_goes_on(answer, status) ==
    CASE answer = "NotFound" -> [status |-> "offline", last |-> FALSE]
      [] answer = "error" -> [status |-> "unknown", last |-> FALSE]
      [] OTHER -> [status |-> status, last |-> FALSE]

\* _track_container_stats lines 422-465: the status of the sample and whether
\* the sampler stops after it
sample(answer, status) ==
    CASE answer = "NotFound" -> [status |-> "offline", last |-> TRUE]
      [] answer = "error" -> [status |-> "unknown", last |-> FALSE]
      [] OTHER -> [status |-> status, last |-> FALSE]

\* mutant of restarts: the monitor is started again whatever the lookup says
restarts_unconditionally(answer) == TRUE

\* _monitor_container lines 402-413: a new monitor is started when the lookup
\* returns the container
restarts(answer) == answer = "found"

\* ------------------------------------------------------ container runtime
container_starts(c) ==
    /\ changes < MaxChanges
    /\ runtime[c] \in {"created", "exited"}
    /\ runtime' = [runtime EXCEPT ![c] = "running"]
    /\ changes' = changes + 1
    /\ docker_events' = Append(docker_events, [Action |-> "start", ID |-> c])
    /\ UNCHANGED <<pipeline, redaction, bus, redis, stored, pump, ws, listener, written,
                   _monitoring_tasks, tasks, container_states, log_buffers, samples>>

container_stops(c) ==
    /\ changes < MaxChanges
    /\ runtime[c] = "running"
    /\ runtime' = [runtime EXCEPT ![c] = "exited"]
    /\ changes' = changes + 1
    /\ tasks' = EndStreams(c, tasks)
    /\ docker_events' = Append(docker_events, [Action |-> "die", ID |-> c])
    /\ UNCHANGED <<pipeline, redaction, bus, redis, stored, pump, ws, listener, written,
                   _monitoring_tasks, container_states, log_buffers, samples>>

\* docker restart: the run ends and a new run of the same id begins
container_restarts(c) ==
    /\ changes < MaxChanges
    /\ runtime[c] = "running"
    /\ changes' = changes + 1
    /\ tasks' = EndStreams(c, tasks)
    /\ docker_events' = docker_events \o <<[Action |-> "die", ID |-> c],
                                          [Action |-> "start", ID |-> c],
                                          [Action |-> "restart", ID |-> c]>>
    /\ UNCHANGED <<pipeline, redaction, bus, redis, stored, pump, ws, listener, runtime,
                   written, _monitoring_tasks, container_states, log_buffers, samples>>

\* docker rm of a stopped container: the destroy event follows the removal
container_removed(c) ==
    /\ changes < MaxChanges
    /\ runtime[c] = "exited"
    /\ runtime' = [runtime EXCEPT ![c] = "removed"]
    /\ changes' = changes + 1
    /\ docker_events' = Append(docker_events, [Action |-> "destroy", ID |-> c])
    /\ UNCHANGED <<pipeline, redaction, bus, redis, stored, pump, ws, listener, written,
                   _monitoring_tasks, tasks, container_states, log_buffers, samples>>

container_writes(c) ==
    /\ runtime[c] = "running"
    /\ Sum(written) < MaxWritten
    /\ written' = [written EXCEPT ![c] = @ + 1]
    /\ UNCHANGED <<pipeline, redaction, bus, redis, stored, pump, ws, listener, runtime,
                   changes, docker_events, _monitoring_tasks, tasks, container_states,
                   log_buffers, samples>>

\* ---------------------------------------------------------- event handler
\* _handle_docker_event lines 245-295 for the oldest event, the lookups of
\* the container (lines 252, 258, 289) being answered with answer
_handle_docker_event(answer) ==
    /\ docker_events # <<>>
    /\ LET action == Head(docker_events).Action
           container_id == Head(docker_events).ID
           tracked == _monitoring_tasks[container_id]
       IN /\ answer \in Lookups(container_id)
          /\ docker_events' = Tail(docker_events)
          /\ IF ~_has_monitor_label(answer)
             THEN UNCHANGED <<_monitoring_tasks, tasks, container_states>>
             ELSE CASE action \in {"start", "restart"} ->
                         LET started == _start_monitoring_container(
                                            container_id, tasks, _monitoring_tasks,
                                            container_states)
                         IN /\ Len(started.tasks) <= MaxTasks
                            /\ tasks' = started.tasks
                            /\ _monitoring_tasks' = started.map
                            /\ container_states' = started.states
                    [] action = "die" ->
                         /\ _monitoring_tasks' = _cleanup_completed_tasks
                         /\ UNCHANGED <<tasks, container_states>>
                    [] action = "destroy" ->
                         /\ _monitoring_tasks' = [_monitoring_tasks EXCEPT ![container_id] = 0]
                         /\ tasks' = IF tracked = 0 THEN tasks
                                     ELSE [tasks EXCEPT ![tracked] =
                                             [@ EXCEPT !.state = "cancelled",
                                                       !.log_task = IF @ = "stream"
                                                                    THEN "cancelled" ELSE @,
                                                       !.stats_task = IF @ = "sample"
                                                                      THEN "cancelled" ELSE @]]
                         /\ container_states' = [container_states EXCEPT ![container_id] = None]
    /\ UNCHANGED <<pipeline, redaction, bus, redis, stored, pump, ws, listener, runtime,
                   written, changes, log_buffers, samples>>

\* ------------------------------------------------------------ log pump
\* _pump_logs lines 694-696 and _stream_container_logs lines 709-722: the
\* next line of the stream is buffered and published
_stream_container_logs(t) ==
    /\ t \in DOMAIN tasks
    /\ tasks[t].log_task = "stream"
    /\ tasks[t].pos < (IF tasks[t].limit = None THEN written[tasks[t].id]
                       ELSE The(tasks[t].limit))
    /\ log_buffers' = [log_buffers EXCEPT ![tasks[t].id] = Append(@, tasks[t].pos + 1)]
    /\ tasks' = [tasks EXCEPT ![t].pos = @ + 1]
    /\ UNCHANGED <<pipeline, redaction, bus, redis, stored, pump, ws, listener, runtime,
                   written, changes, docker_events, _monitoring_tasks, container_states,
                   samples>>

\* _pump_logs line 700 and _stream_container_logs lines 710-711: the stream
\* is over, the pump reads the None sentinel and returns
log_stream_ends(t) ==
    /\ t \in DOMAIN tasks
    /\ tasks[t].log_task = "stream"
    /\ tasks[t].limit = Some(tasks[t].pos)
    /\ tasks' = [tasks EXCEPT ![t].log_task = "done"]
    /\ UNCHANGED <<pipeline, redaction, bus, redis, stored, pump, ws, listener, runtime,
                   written, changes, docker_events, _monitoring_tasks, container_states,
                   log_buffers, samples>>

\* ------------------------------------------------------- metrics sampler
\* _track_container_stats lines 421-552, one iteration: the sample is stored
\* in container_states and published
_track_container_stats(t) ==
    /\ t \in DOMAIN tasks
    /\ tasks[t].stats_task = "sample"
    /\ Sum([c \in Containers |-> Len(samples[c])]) < MaxSamples
       \/ runtime[tasks[t].id] = "removed"
    /\ \E answer \in Lookups(tasks[t].id) :
         LET c == tasks[t].id
             taken == sample(answer, runtime[c])
         IN /\ container_states' = [container_states EXCEPT ![c] = Some(taken.status)]
            /\ samples' = [samples EXCEPT ![c] = Append(@, [task |-> t, status |-> taken.status])]
            /\ tasks' = [tasks EXCEPT ![t].stats_task = IF taken.last THEN "done" ELSE @]
    /\ UNCHANGED <<pipeline, redaction, bus, redis, stored, pump, ws, listener, runtime,
                   written, changes, docker_events, _monitoring_tasks, log_buffers>>

\* ------------------------------------------------------------- monitor
\* _monitor_container lines 377-384: both children have returned
monitor_finally(t) ==
    /\ t \in DOMAIN tasks
    /\ tasks[t].state = "run"
    /\ tasks[t].log_task = "done"
    /\ tasks[t].stats_task = "done"
    /\ tasks' = [tasks EXCEPT ![t].state = "done"]
    /\ container_states' = [container_states EXCEPT ![tasks[t].id] = None]
    /\ UNCHANGED <<pipeline, redaction, bus, redis, stored, pump, ws, listener, runtime,
                   written, changes, docker_events, _monitoring_tasks, log_buffers, samples>>

\* _monitor_container lines 377-399: a child raises (the pump when the
\* pipeline or the classifier lets an exception through, the sampler on an
\* error that is no DockerException); the other child is cancelled, the
\* container's state and the map entry are dropped and the task sleeps
monitor_except(t) ==
    /\ t \in DOMAIN tasks
    /\ Len(tasks) < MaxTasks
    /\ tasks[t].state = "run"
    /\ \E child \in {"log_task", "stats_task"} :
         /\ tasks[t][child] \in {"stream", "sample"}
         /\ tasks' = [tasks EXCEPT ![t] =
                        [@ EXCEPT !.state = "sleep",
                                  !.delay = restart_delay,
                                  !.log_task = IF child = "log_task" THEN "raised"
                                               ELSE IF @ = "stream" THEN "cancelled" ELSE @,
                                  !.stats_task = IF child = "stats_task" THEN "raised"
                                                 ELSE IF @ = "sample" THEN "cancelled" ELSE @]]
    /\ container_states' = [container_states EXCEPT ![tasks[t].id] = None]
    /\ _monitoring_tasks' = [_monitoring_tasks EXCEPT ![tasks[t].id] = 0]
    /\ UNCHANGED <<pipeline, redaction, bus, redis, stored, pump, ws, listener, runtime,
                   written, changes, docker_events, log_buffers, samples>>

\* _monitor_container lines 401-413: the sleep is over, the container is
\* looked up and, when found, monitored again; the task ends
monitor_restart_answer(t, answer) ==
    LET ended == [tasks EXCEPT ![t].state = "done"]
        started == _start_monitoring_container(tasks[t].id, ended, _monitoring_tasks,
                                               container_states)
    IN IF restarts(answer)
       THEN /\ tasks' = started.tasks
            /\ _monitoring_tasks' = started.map
            /\ container_states' = started.states
       ELSE /\ tasks' = ended
            /\ UNCHANGED <<_monitoring_tasks, container_states>>

monitor_restart(t) ==
    /\ t \in DOMAIN tasks
    /\ tasks[t].state = "sleep"
    /\ \E answer \in Lookups(tasks[t].id) : monitor_restart_answer(t, answer)
    /\ Len(tasks') <= MaxTasks
    /\ UNCHANGED <<pipeline, redaction, bus, redis, stored, pump, ws, listener, runtime,
                   written, changes, docker_events, log_buffers, samples>>

MonitorNext ==
    \/ \E c \in Containers :
          \/ container_starts(c)
          \/ container_stops(c)
          \/ container_restarts(c)
          \/ container_removed(c)
          \/ container_writes(c)
    \/ \E answer \in {"found", "NotFound", "error"} : _handle_docker_event(answer)
    \/ \E t \in 1..MaxTasks :
          \/ _stream_container_logs(t)
          \/ log_stream_ends(t)
          \/ _track_container_stats(t)
          \/ monitor_finally(t)
          \/ monitor_except(t)
          \/ monitor_restart(t)

MonitorSpec == Init /\ [][MonitorNext]_vars

\* ================================================================ claims
Ended(c) == pc[c] \in {"returned", "raised"}

\* C1: the status of every incident record is created as analyzing, and once
\* it is resolved or unresolved no step changes it again (so its history is a
\* prefix of analyzing -> resolved or of analyzing -> unresolved).
C1_StatusMonotonic ==
    [][ /\ Len(records') >= Len(records)
        /\ \A r \in 1..Len(records) :
             records[r].status # ANALYZING => records'[r].status = records[r].status
        /\ \A r \in (Len(records) + 1)..Len(records') :
             records'[r].status = ANALYZING ]_vars

\* a resolved incident whose pipeline went on (narration) and returned
C1_Witness ==
    \E c \in Containers :
        /\ pc[c] = "returned"
        /\ Rec(c).status = RESOLVED
        /\ Rec(c).explanation # None

\* the verify stage of the run of c is over (it decided or it raised)
VerifyStageOver(c) ==
    /\ health_calls[c] > 0
    /\ pc[c] \in {"narrate", "returned", "raised"}

\* every executed fix whose fix action has priority <= 2 returned success
CriticalFixesSucceeded(c) ==
    \A i \in 1..Len(fix_results[c]) :
        The(Rec(c).analysis)[i].priority <= 2 => fix_results[c][i].success

\* C2: once the verify stage is over (the container still existing at the
\* reload), the status is resolved iff verify_health returned true, every
\* executed fix of priority <= 2 succeeded and the container is running, and
\* unresolved in every other case, for any number of executed fixes.
C2_ResolvedIffAllThree ==
    \A c \in Containers :
        (VerifyStageOver(c) /\ exc[c] # "NotFound") =>
            Rec(c).status =
                IF /\ is_healthy[c] = Some(TRUE)
                   /\ CriticalFixesSucceeded(c)
                   /\ is_actually_running[c] = Some(TRUE)
                THEN RESOLVED ELSE UNRESOLVED

\* C3: when _handle_incident has returned, the last incident event published
\* for its incident carries the status the stored record has.
C3_LastEventCarriesStatus ==
    \A c \in Containers :
        pc[c] = "returned" => Last(published[cur[c]]).incident.status = Rec(c).status

\* C4: an unresolved incident has resolution_notes set.
C4_UnresolvedHasNotes ==
    \A r \in 1..Len(records) :
        records[r].status = UNRESOLVED => records[r].resolution_notes # None

\* C5: when verify_gateway_health returned false, the run has stopped with no
\* execute_fix and no verify_health call, status unresolved and
\* resolution_notes "MCP Gateway health check failed".
C5_GatewayUnhealthyStops ==
    \A c \in Containers :
        gateway_healthy[c] = Some(FALSE) =>
            /\ pc[c] = "returned"
            /\ exec_calls[c] = <<>>
            /\ health_calls[c] = 0
            /\ http[c] = None
            /\ Rec(c).status = UNRESOLVED
            /\ Rec(c).resolution_notes = <<"MCP Gateway health check failed">>

\* a run stopped by an unhealthy gateway
C5_Witness ==
    \E c \in Containers : gateway_healthy[c] = Some(FALSE) /\ pc[c] = "returned"

\* C6: when analyze_root_cause raised, the run has stopped: status unresolved,
\* resolution_notes containing the error message, the last published event
\* carrying that record, and no pre-flight, execute_fix, verify_health or
\* narration for the incident.
C6_AnalysisFailureStops ==
    \A c \in Containers :
        analysis_exc[c] # None =>
            /\ pc[c] = "returned"
            /\ Rec(c).status = UNRESOLVED
            /\ \E i \in 1..Len(Rec(c).resolution_notes) :
                 Rec(c).resolution_notes[i] = The(analysis_exc[c])
            /\ Last(published[cur[c]]).incident = Rec(c)
            /\ gateway_healthy[c] = None
            /\ exec_calls[c] = <<>>
            /\ health_calls[c] = 0
            /\ http[c] = None
            /\ Rec(c).explanation = None

\* a run stopped by a failed analysis
C6_Witness ==
    \E c \in Containers : analysis_exc[c] # None /\ pc[c] = "returned"

\* the events of the self-heal scenario, in order
SelfHealEvents(events) ==
    /\ Len(events) = 5
    /\ events[1].type = "incident" /\ events[1].incident.status = ANALYZING
    /\ events[2].type = "incident_update" /\ events[2].incident.analysis # None
    /\ events[3].type = "incident_update" /\ events[3].incident.fixes # <<>>
    /\ events[4].type = "incident_update" /\ events[4].incident.status = RESOLVED
    /\ events[5].type = "incident_update" /\ events[5].incident.explanation # None

\* C7: a run whose analysis had exactly one fix of priority 1, whose tool call
\* the gateway answered success, whose health probe passed and whose container
\* is running ends resolved with resolved_at set, its published events being
\* incident(analyzing), update(analysis), update(fixes), update(resolved),
\* update(explanation).
C7_SelfHealScenario ==
    \A c \in Containers :
        ( /\ Ended(c)
          /\ Rec(c).analysis # None
          /\ Len(The(Rec(c).analysis)) = 1
          /\ The(Rec(c).analysis)[1].priority = 1
          /\ fix_results[c] = <<call_tool_result("success_true")>>
          /\ is_healthy[c] = Some(TRUE)
          /\ exc[c] # "NotFound"
          /\ is_actually_running[c] # Some(FALSE) ) =>
            /\ Rec(c).status = RESOLVED
            /\ Rec(c).resolved_at # None
            /\ SelfHealEvents(published[cur[c]])

\* the remediate stage of the run of c is over
RemediateOver(c) ==
    /\ gateway_healthy[c] = Some(TRUE)
    /\ pc[c] \in {"verify_health", "health_call", "health_sleep", "narrate",
                  "returned", "raised"}

\* C8: execute_fix calls are made one at a time in the order of
\* suggested_fixes, and once the remediate stage is over there was exactly one
\* call per suggested fix and incident.fixes holds the results, in that order
\* and with that length.
C8_EveryFixExecutedInOrder ==
    \A c \in Containers :
        /\ gateway_healthy[c] = Some(TRUE) =>
             /\ Len(exec_calls[c]) <= Len(The(Rec(c).analysis))
             /\ exec_calls[c] = SubSeq(The(Rec(c).analysis), 1, Len(exec_calls[c]))
             /\ Len(exec_calls[c]) - Len(fix_results[c]) \in {0, 1}
        /\ RemediateOver(c) =>
             /\ exec_calls[c] = The(Rec(c).analysis)
             /\ Rec(c).fixes = fix_results[c]
             /\ Len(Rec(c).fixes) = Len(The(Rec(c).analysis))

\* an execute_fix call of the run of c is in flight (started, not returned)
ExecuteFixInFlight(c) ==
    /\ pc[c] \in {"initialize_session", "discover_tools", "call_tool"}
    /\ init_from[c] = "execute_fix"

\* C9: no two execute_fix calls are in flight for the same target.
C9_SerializedPerTarget ==
    \A c1, c2 \in Containers :
        (c1 # c2 /\ ExecuteFixInFlight(c1) /\ ExecuteFixInFlight(c2)) =>
            Last(exec_calls[c1]).target # Last(exec_calls[c2]).target

\* C10: with auto-heal disabled, a step that calls execute_fix appends the
\* result (success false, "Auto-heal disabled"), puts no gateway request in
\* flight and leaves the session id and the cached tool list as they were.
C10_AutoHealDisabledShortCircuits ==
    [][ \A c \in Containers :
          (~auto_heal_enabled /\ Len(exec_calls'[c]) = Len(exec_calls[c]) + 1) =>
              /\ fix_results'[c] =
                   Append(fix_results[c],
                          FixExecutionResult(FALSE, <<"Auto-heal disabled">>, None, None))
              /\ http' = http
              /\ http[c] = None
              /\ session_id' = session_id
              /\ available_tools' = available_tools ]_vars

\* execute_fix has been called with auto-heal disabled
C10_Witness ==
    \E c \in Containers : ~auto_heal_enabled /\ exec_calls[c] # <<>>

\* C11: with auto-heal disabled, a pipeline run whose analysis suggests at
\* least one fix has no gateway request in flight at any stage after the
\* analysis, and every entry of incident.fixes is (success false, "Auto-heal
\* disabled").
C11_DisabledRunIssuesNoRequest ==
    \A c \in Containers :
        (/\ ~auto_heal_enabled
         /\ cur[c] # 0
         /\ Rec(c).analysis # None
         /\ The(Rec(c).analysis) # <<>>) =>
            /\ http[c] = None
            /\ \A i \in 1..Len(Rec(c).fixes) : Rec(c).fixes[i] = AutoHealDisabled

C13_UnknownToolAnsweredLocally ==
    [][ \A c \in Containers :
          (/\ auto_heal_enabled
           /\ pc[c] # "call_tool"
           /\ Len(fix_results'[c]) = Len(fix_results[c]) + 1
           /\ Last(exec_calls'[c]).action \notin available_tools') =>
              /\ ~Last(fix_results'[c]).success
              /\ Last(fix_results'[c]).error =
                   <<"Tool ", Last(exec_calls'[c]).action, " not found in MCP Gateway">>
              /\ http[c] = None
              /\ http'[c] = None ]_vars

\* a tools/list or tools/call request
SessionRequest(request) ==
    request # None /\ The(request).method \in {"tools/list", "tools/call"}

\* C14: a tools/list or tools/call request is sent with the stored session
\* id in its Mcp-Session-Id header, and none is in flight unless an id is
\* stored; the stored id changes only to the id of an initialize answer that
\* carries one; an initialize answer without the header makes initialize
\* raise, with nothing stored and nothing sent.
C14_SessionIdEchoed ==
    [][ \A c \in Containers :
          /\ (http'[c] # http[c] /\ SessionRequest(http'[c])) =>
                /\ session_id' # None
                /\ The(http'[c]).session = session_id'
          /\ (session_id' # session_id /\ pc'[c] # pc[c]) =>
                \E resp \in InitializeResponses :
                    /\ resp.session = session_id' /\ resp.session # None
                    /\ pc[c] = "initialize_session"
                    /\ initialize_session_answer(c, resp)
          /\ \A resp \in InitializeResponses :
                (/\ resp.session = None
                 /\ pc[c] = "initialize_session"
                 /\ initialize_session_answer(c, resp)) =>
                    /\ session_id' = session_id
                    /\ http'[c] = None
                    /\ \/ pc'[c] = "raised"
                       \/ init_from[c] = "verify_gateway_health"
                            /\ gateway_healthy'[c] = Some(FALSE) ]_vars

\* a tools/call request is in flight under a session id that replaced an
\* earlier one, while the other run has been refused by an initialize answer
\* without the header
C14_Witness ==
    \E c1, c2 \in Containers :
        /\ SessionRequest(http[c1])
        /\ The(http[c1]).method = "tools/call"
        /\ The(http[c1]).session = Some("sid-2")
        /\ pc[c2] = "raised"

\* C15: verify_health polls health_check only while the gateway advertises
\* it; a poll answered by a successful result, or by a tool result whose
\* status is running, makes it return true at once; it returns false only
\* once 30 seconds have elapsed.
C15_HealthProbe ==
    [][ \A c \in Containers :
          /\ (/\ http'[c] # http[c] /\ http'[c] # None
               /\ The(http'[c]).tool = "health_check") =>
                  "health_check" \in available_tools
          /\ \A resp \in {"success_true", "status_running"} :
                (pc[c] = "health_call" /\ health_call_answer(c, resp)) =>
                    is_healthy'[c] = Some(TRUE)
          /\ (is_healthy[c] = None /\ is_healthy'[c] = Some(FALSE)) =>
                elapsed[c] + _HEALTH_CHECK_INTERVAL >= _MAX_HEALTH_WAIT_SECONDS ]_vars

\* the password piece of a value that is a URL with credentials, as a set
PasswordOf(value) ==
    IF Len(value) >= 4 /\ value[2] = "://" /\ first_at(value, 4) # 0
    THEN {value[first_at(value, 4) - 1]}
    ELSE {}

Pieces(text) == {text[i] : i \in 1..Len(text)}

\* C16: in the rendered prompt the value of every sensitive name is
\* ***REDACTED***, the password of every URL value is replaced by
\* ***REDACTED*** (also under a name that is not sensitive) and does not
\* occur in the entry, and every other value appears unchanged.
C16_PromptHidesSecrets ==
    prompt # None =>
        LET rendered == The(prompt)
        IN /\ Len(rendered) = Len(environment_vars)
           /\ \A i \in 1..Len(environment_vars) :
                LET key == environment_vars[i].key
                    value == environment_vars[i].value
                    shown == rendered[i][3]
                IN /\ rendered[i][1] = key
                   /\ key_is_sensitive(key) => shown = <<REDACTED>>
                   /\ PasswordOf(value) # {} =>
                        /\ PasswordOf(value) \cap Pieces(shown) = {}
                        /\ REDACTED \in Pieces(shown)
                        /\ ~key_is_sensitive(key) => shown = redact_url_passwords(value)
                   /\ (~key_is_sensitive(key) /\ PasswordOf(value) = {}) => shown = value

\* C18: the events a subscription has yielded are in the order of their
\* publish calls: each was published, none is yielded twice and none is
\* yielded after a later one.
C18_FifoPerSubscription ==
    \A s \in Subscriptions :
        /\ \A i \in 1..Len(yielded[s]) : yielded[s][i] \in 1..sent
        /\ \A i, j \in 1..Len(yielded[s]) : i < j => yielded[s][i] < yielded[s][j]

\* a subscription that lost an event to overflow has yielded two later ones
C18_Witness ==
    \E s \in Subscriptions : Len(yielded[s]) >= 2 /\ dropped[s] # {}

\* C19: a publish puts the new event at the end of every listener's queue; a
\* listener whose queue was full loses exactly its oldest queued event, every
\* other listener loses nothing; no queue ever holds more than maxsize
\* events, and publish can always be made: it waits for no consumer.
C19_OverflowDropsOldest ==
    /\ [](\A s \in Subscriptions : Len(queue[s]) <= MaxQueue)
    /\ [](sent < MaxPublishes => ENABLED publish)
    /\ [][ sent' = sent + 1 =>
             \A s \in subscribers :
                 IF Len(queue[s]) = MaxQueue
                 THEN queue'[s] = Append(Tail(queue[s]), Event(sent'))
                 ELSE queue'[s] = Append(queue[s], Event(sent')) ]_vars

\* one subscription has lost an event to overflow while the other, attached
\* since the first publish, still holds or has yielded every event
C19_Witness ==
    \E s1, s2 \in Subscriptions :
        /\ dropped[s1] # {}
        /\ sent = MaxPublishes
        /\ s2 \in listeners_at[1]
        /\ handle[s2] = "open"
        /\ dropped[s2] = {}
        /\ Len(yielded[s2]) + Len(queue[s2]) = sent

\* C20: once close() has been called on a subscription its iteration ends:
\* an iterator that is running reaches its end, and stays there; one started
\* afterwards ends at once.
C20_CloseEndsIteration ==
    /\ \A s \in Subscriptions :
          [](handle[s] = "closed" => <>[](iter[s] \in {"none", "done"}))
    /\ [][ \A s \in Subscriptions :
             (handle[s] = "closed" /\ iter[s] = "none" /\ iter'[s] # "none")
                 => iter'[s] = "done" ]_vars

\* the iterator of a closed subscription was ended by the sentinel
C20_Witness ==
    \E s \in Subscriptions :
        /\ handle[s] = "closed"
        /\ iter[s] = "done"
        /\ queue[s] = <<>>
        /\ yielded[s] # <<>>

\* C17: an event published after a client's subscribe() returned is observed
\* by that client: while its subscription is open, the event has been
\* yielded to it or is still waiting to be read by it; and a client observes
\* no event whose publish preceded the start of its subscribe().
C17_AttachedSubscribersObserve ==
    \A k \in Clients :
        /\ \A e \in 1..rsent :
              (k \in returned_at[e] /\ rpc[k] = "attached") =>
                  \/ \E i \in 1..Len(received[k]) : received[k][i] = e
                  \/ \E i \in 1..Len(inbox[rsub[k]]) : inbox[rsub[k]][i].id = e
        /\ \A i \in 1..Len(received[k]) : k \in started_at[received[k][i]]

\* C21: in every reachable state, also between the commands of one publish
\* and with several tasks publishing, the history list holds at most
\* _MAX_HISTORY_SIZE entries and is ordered newest first.
C21_HistoryCappedNewestFirst ==
    /\ Len(history) <= _MAX_HISTORY_SIZE
    /\ \A i \in 1..(Len(history) - 1) : history[i].id > history[i + 1].id

\* C22: a cancellation that arrives while execute_fix or verify_health waits
\* on a gateway tool call makes the outer operation return a failure result
\* to its caller (a failed fix result appended by the remediate loop, False
\* from verify_health); the pipeline run is not left by an exception.
C22_CancelledCallReturnsFailure ==
    [][\A c \in Containers :
          cancel(c) =>
              /\ pc'[c] # "raised"
              /\ pc[c] = "call_tool" =>
                     /\ Len(fix_results'[c]) = Len(fix_results[c]) + 1
                     /\ ~Last(fix_results'[c]).success
              /\ pc[c] = "health_call" => is_healthy'[c] # Some(TRUE)]_vars

\* C23: while the log pump of one container waits for the classifier inside
\* _check_for_anomalies, the rest of the scheduler can take steps: each of
\* the other tasks can run a callback, and the pump of another container can
\* read a line that is waiting in its queue.
C23_SchedulerProgressesDuringModelCall ==
    \A c \in Containers :
        ppc[c] = "detect_anomaly" =>
            /\ \A t \in OtherTasks : ENABLED run_task(t)
            /\ \A d \in Containers \ {c} :
                  (ppc[d] = "get" /\ log_queue[d] > 0) => ENABLED log_line(d)

\* C24: a pump that is waiting for its next line has read fewer than
\* log_lines_per_check lines since its last check (one check per N lines
\* when lines come fast), and when it has read lines since the last check,
\* no more than log_check_interval_seconds have passed since that check (one
\* check per interval when lines come slowly).
C24_OneCheckPerLinesOrInterval ==
    \A c \in Containers :
        ppc[c] = "get" =>
            /\ lines_since_check[c] < log_lines_per_check
            /\ lines_since_check[c] > 0 =>
                   clock - last_check_time[c] <= log_check_interval_seconds

\* C25: when the request of the classifier fails (transport failure,
\* malformed JSON, schema violation) detect_anomaly raises nothing to the log
\* pump: it returns the benign verdict, and the check ends without opening an
\* incident.
C25_ClassifierFailureIsBenign ==
    [][\A c \in Containers : \A resp \in {x \in ClassifierResponses : x.kind # "verdict"} :
          (ppc[c] = "detect_anomaly" /\ detect_anomaly_answer(c, resp)) =>
              /\ ppc'[c] = "get"
              /\ anomaly'[c] = Some(benign(resp.kind))
              /\ ~escalates(The(anomaly'[c]))]_vars

C25_Witness ==
    \E c \in Containers :
        /\ ppc[c] = "get"
        /\ anomaly[c] # None
        /\ The(anomaly[c]).summary[1] = "Error analyzing logs: "
        /\ lines_since_check[c] = 0

\* C26: a failed classifier request is retried: a failure on an attempt
\* before the third leads to another attempt, a failure on the third attempt
\* to the benign verdict; a verdict obtained on any attempt is the result.
C26_FailedRequestIsRetried ==
    [][\A c \in Containers : \A resp \in ClassifierResponses :
          (ppc[c] = "detect_anomaly" /\ detect_anomaly_answer(c, resp)) =>
              IF resp.kind = "verdict"
              THEN /\ anomaly'[c] # None
                   /\ The(anomaly'[c]).is_anomaly = resp.is_anomaly
                   /\ The(anomaly'[c]).severity = resp.severity
              ELSE IF attempt[c] < stop_after_attempt
                   THEN ppc'[c] = "detect_anomaly" /\ attempt'[c] = attempt[c] + 1
                   ELSE anomaly'[c] = Some(benign(resp.kind))]_vars

\* C27: when the handler's work is ended by an exception that is neither a
\* client disconnect nor a timeout, the connection has been closed with code
\* 1011; and no exception leaves the handler.
C27_ErrorClosesWith1011 ==
    \A k \in Clients :
        /\ wpc[k] # "raised"
        /\ (wpc[k] = "returned" /\ ws_exc[k] = "error") => close_code[k] = Some(1011)

\* C30: every event published after the handler took the snapshots for the
\* bootstrap frame reaches the client after the bootstrap frame: while the
\* handler is forwarding, each such event has been sent, is waiting in the
\* subscription, or was skipped by a send timeout.
C30_NoEventBetweenSnapshotAndSubscribe ==
    \A k \in Clients :
        wpc[k] = "forward" =>
            \A e \in (snapshot_at[k] + 1)..wsent :
                \/ \E i \in 2..Len(frames[k]) : frames[k][i] = Event(e)
                \/ \E i \in 1..Len(ws_inbox[k]) : ws_inbox[k][i] = Event(e)
                \/ e \in skipped[k]

C29_NoIncidentLeftAnalyzing ==
    \A i \in 1..Len(records) :
        (\A c \in Containers : cur[c] = i => Ended(c)) =>
            records[i].status \in {RESOLVED, UNRESOLVED}

\* C31: the incident log holds each incident exactly once: every record
\* opened by _handle_incident is referenced by exactly one entry of
\* SRESentinel.incidents, whatever path its pipeline run takes.
C31_EachIncidentLoggedOnce ==
    \A r \in 1..Len(records) :
        Cardinality({i \in 1..Len(incidents) : incidents[i] = r}) = 1

\* C37: execute_fix never raises to the pipeline other than on
\* cancellation: a step taken while an execute_fix call is in flight either
\* keeps the pipeline run going or is the cancellation of the call; any
\* other failure has become a result with success false, appended by the
\* remediate loop.
C37_ExecuteFixNeverRaises ==
    [][\A c \in Containers :
          (ExecuteFixInFlight(c) /\ pc'[c] = "raised") =>
              exc'[c] = "CancelledError"]_vars

\* C40: for one container at most one _handle_incident run is in progress,
\* and while it is in progress the container's pump reads no line from its
\* queue, starts no classifier call and opens no further run.
C40_OneIncidentRunPerContainer ==
    /\ [](\A c \in Containers : runs[c] <= 1)
    /\ [][\A c \in Containers :
             runs[c] > 0 =>
                 /\ log_queue'[c] >= log_queue[c]
                 /\ attempt'[c] = attempt[c]
                 /\ runs'[c] <= runs[c]]_vars

C40_Witness ==
    \E c \in Containers :
        /\ runs[c] = 1
        /\ ppc[c] = "_handle_incident"
        /\ log_queue[c] > 0
        /\ clock - last_check_time[c] >= log_check_interval_seconds

\* C38: every line the pump of a container has ingested is eventually
\* covered by an anomaly check: lines counted since the last check are
\* eventually checked (the count returns to 0), also when no further line
\* arrives.
C38_IngestedLinesEventuallyChecked ==
    \A c \in Containers : (lines_since_check[c] > 0) ~> (lines_since_check[c] = 0)

\* the step handles the oldest container event, of the given kinds
Handles(actions) ==
    /\ docker_events # <<>>
    /\ Head(docker_events).Action \in actions
    /\ docker_events' = Tail(docker_events)

\* C32: when a destroy event for a tracked container id is handled, the
\* container's monitoring task is cancelled, the id leaves the tracked-task
\* map and its container_states entry is dropped.
C32_DestroyDropsContainer ==
    [][Handles({"destroy"}) =>
          LET c == Head(docker_events).ID
              tracked == _monitoring_tasks[c]
          IN tracked # 0 =>
                /\ _monitoring_tasks'[c] = 0
                /\ container_states'[c] = None
                /\ tasks'[tracked].state \in {"cancelled", "done"}]_vars

\* C33: once the events of a (re)start of a tracked container have been
\* handled, monitoring continues for its id: while the container runs, its
\* monitor has a log pump following the current run and a sampler.
C33_MonitoringContinuesAfterRestart ==
    \A c \in Containers :
        ( /\ runtime[c] = "running"
          /\ _monitoring_tasks[c] # 0
          /\ \A i \in 1..Len(docker_events) : docker_events[i].ID # c ) =>
            LET t == tasks[_monitoring_tasks[c]]
            IN /\ t.state = "run"
               /\ t.log_task = "stream" /\ t.limit = None
               /\ t.stats_task = "sample"

\* C34: a start event for a labelled, untracked container creates exactly
\* one monitoring task, a start or restart event for a tracked id creates
\* none, and at every moment a container id has at most one running monitor
\* (the tracked one), one live log pump and one live sampler.
C34_OneMonitorPerContainer ==
    /\ [](\A t, u \in DOMAIN tasks :
            (t # u /\ tasks[t].id = tasks[u].id) =>
                /\ ~(tasks[t].state = "run" /\ tasks[u].state = "run")
                /\ ~(tasks[t].log_task = "stream" /\ tasks[u].log_task = "stream")
                /\ ~(tasks[t].stats_task = "sample" /\ tasks[u].stats_task = "sample"))
    /\ [](\A t \in DOMAIN tasks :
            tasks[t].state = "run" => _monitoring_tasks[tasks[t].id] = t)
    /\ [][(Handles({"start", "restart"}) /\ _handle_docker_event("found")) =>
             LET c == Head(docker_events).ID
             IN /\ Len(tasks') = Len(tasks) + (IF _monitoring_tasks[c] = 0 THEN 1 ELSE 0)
                /\ _monitoring_tasks'[c] # 0
                /\ _monitoring_tasks[c] # 0 => _monitoring_tasks'[c] = _monitoring_tasks[c]]_vars

C34_Witness ==
    \E c \in Containers :
        /\ Len(tasks) = 2
        /\ tasks[1].id = c /\ tasks[2].id = c
        /\ tasks[1].state = "done" /\ tasks[1].log_task = "raised"
        /\ tasks[2].state = "run" /\ _monitoring_tasks[c] = 2
        /\ tasks[2].limit # None
        /\ changes = 2 /\ runtime[c] = "running" /\ docker_events = <<>>

\* C35: a monitor that fails sleeps 10 s without touching the monitors of
\* other containers or the event listener; after the sleep it starts a new
\* monitor when the lookup returns the container and none is tracked, so
\* that the id is monitored again; when the container is gone (NotFound) no
\* monitor is started; either way the failed task ends.
C35_FailedMonitorRestarts ==
    [][\A t \in DOMAIN tasks :
          /\ monitor_except(t) =>
                /\ tasks'[t].state = "sleep" /\ tasks'[t].delay = 10
                /\ Len(tasks') = Len(tasks)
                /\ \A u \in DOMAIN tasks : tasks[u].id # tasks[t].id => tasks'[u] = tasks[u]
                /\ lpc' = lpc
          /\ (tasks[t].state = "sleep" /\ tasks'[t].state # "sleep") =>
                /\ tasks'[t].state = "done"
                /\ \A u \in DOMAIN tasks : u # t => tasks'[u] = tasks[u]
                /\ runtime[tasks[t].id] = "removed" =>
                      /\ Len(tasks') = Len(tasks)
                      /\ _monitoring_tasks' = _monitoring_tasks
                /\ (runtime[tasks[t].id] # "removed" /\ monitor_restart_answer(t, "found")) =>
                      LET new == _monitoring_tasks'[tasks[t].id]
                      IN /\ new # 0 /\ new # t
                         /\ tasks'[new].state = "run"
                         /\ tasks'[new].id = tasks[t].id]_vars

C35_Witness ==
    \E c \in Containers :
        /\ Len(tasks) = 2
        /\ tasks[1].id = c /\ tasks[2].id = c
        /\ tasks[1].state = "done" /\ tasks[1].delay = 10
        /\ tasks[1].stats_task = "raised" /\ tasks[1].log_task = "cancelled"
        /\ tasks[2].state = "run" /\ _monitoring_tasks[c] = 2
        /\ changes = 1

\* C36: when the runtime reports NotFound to the sampler of a container, the
\* sampler publishes one container_update with status offline and stops
\* without raising (its monitor is not failed by it), and no later sample of
\* that sampler follows the offline one.
C36_OfflineSampleIsTerminal ==
    /\ [][\A c \in Containers :
             (samples'[c] # samples[c] /\ runtime[c] = "removed") =>
                 LET t == Last(samples'[c]).task
                 IN /\ samples'[c] = Append(samples[c], [task |-> t, status |-> "offline"])
                    /\ container_states'[c] = Some("offline")
                    /\ tasks[t].stats_task = "sample" /\ tasks'[t].stats_task = "done"
                    /\ tasks'[t].state = tasks[t].state]_vars
    /\ [](\A c \in Containers : \A i, j \in 1..Len(samples[c]) :
             (i < j /\ samples[c][i].status = "offline") =>
                 samples[c][j].task # samples[c][i].task)

C36_Witness ==
    \E c \in Containers :
        /\ Len(samples[c]) = 2
        /\ samples[c][1].status = "running"
        /\ samples[c][2] = [task |-> samples[c][1].task, status |-> "offline"]
        /\ tasks[samples[c][1].task].stats_task = "done"
        /\ container_states[c] = Some("offline")

\* C39: each line a container writes is ingested at most once: no line
\* appears twice among the lines buffered and published for the container,
\* whichever pumps ingested them.
C39_EachLineIngestedOnce ==
    \A c \in Containers : \A i, j \in 1..Len(log_buffers[c]) :
        i # j => log_buffers[c][i] # log_buffers[c][j]

====
